---------------------------- MODULE Spec2Model ----------------------------
(***************************************************************************)
(* Model of the App Store Connect client (src/src/client.rs, error.rs):   *)
(* ClientBuilder, the token cache behind a tokio Mutex, the request        *)
(* executor request_raw and the response decoders request and              *)
(* request_none_body.                                                      *)
(*                                                                         *)
(* The wall clock (Utc::now().timestamp()) is an environment variable that *)
(* never runs backwards and is sampled on a grid around the token          *)
(* windows, so that "now = exp" and "now = exp + 1" both occur.            *)
(***************************************************************************)
EXTENDS Integers, Sequences, FiniteSets, TLC

VARIABLES builder, buildRes, cache, holder, waitq, task, ret, clock,
          issued,
          query, calls, pairs, conv, page, sent

(* The client and its callers. *)
clientVars == <<builder, buildRes, cache, holder, waitq, task, ret, clock,
                issued>>

(* The values that go into requests and come out of responses: a query     *)
(* object, the setter calls made on it and the pairs of its queries(); the *)
(* last conversion of a single value; the links of the last page and the   *)
(* last request of a list method.                                          *)
dataVars == <<query, calls, pairs, conv, page, sent>>

vars == <<builder, buildRes, cache, holder, waitq, task, ret, clock,
          issued, query, calls, pairs, conv, page, sent>>

---------------------------------------------------------------------------
(* Bounds of the model. *)

NTasks == 2            \* concurrent callers of the client
MaxSetters == 2        \* setter calls on one query object
MaxPeriods == 3        \* clock horizon, in periods of CacheSecs
Epoch == 1000          \* first clock reading
UsizeBits == 20        \* width of usize in the model (the target's is 32 or 64)

(* Program constants. *)

BackdateSecs == 300    \* 60 * 5  : iat = now - 300
CacheSecs == 600       \* 60 * 10 : cached exp = now + 600
ValiditySecs == 900    \* 60 * 15 : signed exp = now + 900

Tasks == 1..NTasks
NoTask == 0
None == "<none>"
Absent == "<absent>"

ClockPoints ==
    {Epoch + CacheSecs * k + j : k \in 0..MaxPeriods, j \in {0, 1}}

(* The clock readings up to the first expiry of the token of build. *)
FirstPeriod == {c \in ClockPoints : c <= Epoch + CacheSecs + 1}

---------------------------------------------------------------------------
(* Results: Result<T, Error> with the variants of error.rs. *)

NoValue == [data |-> None, links |-> None]
Unit == [data |-> "()", links |-> "()"]
ClientValue == [data |-> "Client", links |-> None]

NoResult == [tag |-> "none", errors |-> <<>>, value |-> NoValue, msg |-> None]
Ok(v) == [tag |-> "Ok", errors |-> <<>>, value |-> v, msg |-> None]
ErrKey == [tag |-> "Key", errors |-> <<>>, value |-> NoValue, msg |-> None]
ErrConvert == [tag |-> "Convert", errors |-> <<>>, value |-> NoValue, msg |-> None]
ErrReqwest == [tag |-> "Reqwest", errors |-> <<>>, value |-> NoValue, msg |-> None]
ErrServerErrors(es) ==
    [tag |-> "ServerErrors", errors |-> es, value |-> NoValue, msg |-> None]
ErrMessage(m) == [tag |-> "Message", errors |-> <<>>, value |-> NoValue, msg |-> m]

(* The thread panics instead of returning (an arithmetic overflow in a     *)
(* build with overflow checks).                                           *)
Panicked(m) == [tag |-> "panic", errors |-> <<>>, value |-> NoValue, msg |-> m]

---------------------------------------------------------------------------
(* Token generator. *)

(* ClientToken::default(): exp 0 and the empty string. *)
EmptyString == [kid |-> None, claims |-> [iss |-> None, iat |-> 0, exp |-> 0, aud |-> None], sig |-> 0]
NoToken == [exp |-> 0, token |-> EmptyString]

(* usize arithmetic as a build without overflow checks computes it: the    *)
(* result modulo 2^width.                                                  *)
UsizeRange == 2 ^ UsizeBits
usize_sub(a, b) == (a + UsizeRange - b) % UsizeRange
usize_add(a, b) == (a + b) % UsizeRange

(* Whether now - (60 * 5) or now + (60 * 15) leaves the range of usize     *)
(* (now + (60 * 10) does not unless now + (60 * 15) does).                 *)
Overflows(now) ==
    \/ now < BackdateSecs
    \/ now + ValiditySecs >= UsizeRange

Claims(iss, now) ==
    [iss |-> iss,
     iat |-> usize_sub(now, BackdateSecs),
     exp |-> usize_add(now, ValiditySecs),
     aud |-> "appstoreconnect-v1"]

(* encode(header, claims, key): the compact token.  ES256 signatures are   *)
(* randomised, so two encodings differ even for equal claims: sig is the   *)
(* serial number of the token among those the capability issued.           *)
encode(kid, claims, sig) == [kid |-> kid, claims |-> claims, sig |-> sig]

(* A gen_token that caches the token for longer than its signature lasts  *)
(* (the two windows exchanged).                                           *)
gen_token_windows_swapped(iss, kid, now, sig) ==
    [exp |-> now + ValiditySecs,
     token |-> encode(kid, [Claims(iss, now) EXCEPT !.exp = now + CacheSecs], sig)]

(* A gen_token that caches the token for the backdating margin only. *)
gen_token_short_cache(iss, kid, now, sig) ==
    [exp |-> now + BackdateSecs, token |-> encode(kid, Claims(iss, now), sig)]

(* gen_token with the clock reading now, when signing succeeds and the     *)
(* arithmetic does not panic.                                              *)
gen_token(iss, kid, now, sig) ==
    [exp |-> usize_add(now, CacheSecs),
     token |-> encode(kid, Claims(iss, now), sig)]

(* Whether the signing capability can succeed / fail with this key.  A     *)
(* malformed key always fails; with a well-formed one the capability may   *)
(* still fail (its random source).                                         *)
SignOutcomes(ec_der) ==
    IF ec_der = "malformed" THEN {FALSE} ELSE {TRUE, FALSE}


---------------------------------------------------------------------------
(* ClientBuilder. *)

DefaultBuilder == [iss |-> None, kid |-> None, ec_der |-> None]

KeyMaterials == {"wellformed", "malformed"}

(* A build that takes an unset issuer for the empty one. *)
build_iss_defaulted(b, signOk, now, sig) ==
    IF b.kid = None
      THEN [res |-> ErrMessage("kid must be set"), token |-> NoToken, signed |-> FALSE]
    ELSE IF b.ec_der = None
      THEN [res |-> ErrMessage("ec_der must be set"), token |-> NoToken, signed |-> FALSE]
    ELSE IF ~signOk
      THEN [res |-> ErrKey, token |-> NoToken, signed |-> TRUE]
    ELSE [res |-> Ok(ClientValue),
          token |-> gen_token(b.iss, b.kid, now, sig),
          signed |-> TRUE]

(* A build that leaves the first token to the first request: the Client    *)
(* starts with ClientToken::default() and the signing capability is not    *)
(* called.                                                                 *)
build_lazy(b, signOk, now, sig) ==
    IF b.kid = None
      THEN [res |-> ErrMessage("kid must be set"), token |-> NoToken, signed |-> FALSE]
    ELSE IF b.iss = None
      THEN [res |-> ErrMessage("iss must be set"), token |-> NoToken, signed |-> FALSE]
    ELSE IF b.ec_der = None
      THEN [res |-> ErrMessage("ec_der must be set"), token |-> NoToken, signed |-> FALSE]
    ELSE [res |-> Ok(ClientValue), token |-> NoToken, signed |-> FALSE]

(* ClientBuilder::build on builder b; signOk is the outcome of the signing *)
(* capability, now the clock reading and sig the serial of the signing     *)
(* call.  The result carries the token the new Client's cache starts with  *)
(* and whether gen_token was reached.                                      *)
build(b, signOk, now, sig) ==
    IF b.kid = None
      THEN [res |-> ErrMessage("kid must be set"), token |-> NoToken, signed |-> FALSE]
    ELSE IF b.iss = None
      THEN [res |-> ErrMessage("iss must be set"), token |-> NoToken, signed |-> FALSE]
    ELSE IF b.ec_der = None
      THEN [res |-> ErrMessage("ec_der must be set"), token |-> NoToken, signed |-> FALSE]
    ELSE IF ~signOk
      THEN [res |-> ErrKey, token |-> NoToken, signed |-> TRUE]
    ELSE [res |-> Ok(ClientValue),
          token |-> gen_token(b.iss, b.kid, now, sig),
          signed |-> TRUE]

ClientExists == buildRes.res.tag = "Ok"

---------------------------------------------------------------------------
(* Response bodies and the decoders. *)

(* An entry of the "errors" list of a body: the four fields of ServerError *)
(* (any of which may be absent) and the "id" the API adds.                 *)
Entry(s, c, t, d) == [status |-> s, code |-> c, title |-> t, detail |-> d, id |-> "x"]

E404 == Entry("404", "NOT_FOUND", "x", "y")
E409 == Entry("409", "ENTITY_ERROR", "dup", "z")
ENoDetail == Entry("404", "NOT_FOUND", "x", Absent)
ENoStatus == Entry(Absent, "NOT_FOUND", "x", "y")

Body(json, hasErrors, errors, data, links) ==
    [json |-> json, hasErrors |-> hasErrors, errors |-> errors,
     data |-> data, links |-> links]

NotJson == Body(FALSE, FALSE, <<>>, Absent, Absent)
ErrorBody(es) == Body(TRUE, TRUE, es, Absent, Absent)
PayloadBody == Body(TRUE, FALSE, <<>>, "d1", "l1")
EmptyObject == Body(TRUE, FALSE, <<>>, Absent, Absent)
NoLinksBody == Body(TRUE, FALSE, <<>>, "d1", Absent)
BothBody == Body(TRUE, TRUE, <<E404>>, "d1", "l1")

AllBodies ==
    {NotJson, EmptyObject, PayloadBody, NoLinksBody, BothBody,
     ErrorBody(<<>>), ErrorBody(<<E404>>), ErrorBody(<<E404, E409>>),
     ErrorBody(<<E409, E404>>), ErrorBody(<<E404, ENoDetail>>),
     ErrorBody(<<ENoStatus>>)}

AllStatuses == {199, 200, 204, 299, 300, 404, 500}

(* The alphabet of responses used when several callers run concurrently. *)
FewBodies == {PayloadBody, ErrorBody(<<E404>>)}
FewStatuses == {200, 404}

(* #[derive(Deserialize)] struct ServerError: all four fields required,    *)
(* unknown fields ignored.                                                 *)
ServerError(e) ==
    [status |-> e.status, code |-> e.code, title |-> e.title, detail |-> e.detail]

(* An entry whose missing fields are defaulted instead of refused. *)
EntryParses_lenient(e) == TRUE

EntryParses(e) ==
    /\ e.status # Absent
    /\ e.code # Absent
    /\ e.title # Absent
    /\ e.detail # Absent

(* serde_json::from_str::<ServerErrors>(text) *)
ParsesAsServerErrors(text) ==
    /\ text.json
    /\ text.hasErrors
    /\ \A i \in 1..Len(text.errors) : EntryParses(text.errors[i])

(* A decoder that keeps the entries in reverse. *)
ServerErrors_reversed(text) ==
    [i \in 1..Len(text.errors) |-> ServerError(text.errors[Len(text.errors) + 1 - i])]

ServerErrors(text) == [i \in 1..Len(text.errors) |-> ServerError(text.errors[i])]

(* A success type whose fields are all optional. *)
ParsesAsT_lenient(text) == text.json

(* serde_json::from_str::<T>(text), T = EntityResponse<_> { data, links } *)
ParsesAsT(text) ==
    /\ text.json
    /\ text.data # Absent
    /\ text.links # Absent

EntityResponse(text) == [data |-> text.data, links |-> text.links]

(* What the transport delivered for a request: the status of the response *)
(* and the body text read from it; NoWire while it delivered nothing.      *)
Wire(status, text) == [ok |-> TRUE, status |-> status, text |-> text]
NoWire == [ok |-> FALSE, status |-> 0, text |-> NotJson]

(* Result<(u16, String)> of request_raw. *)
RawErr(e) == [res |-> e, status |-> 0, text |-> NotJson]

(* A request_raw that turns the statuses outside 2xx into transport errors *)
(* (reqwest's error_for_status).                                           *)
RawOk_error_for_status(status, text) ==
    IF status \div 100 = 2
      THEN [res |-> NoResult, status |-> status, text |-> text]
      ELSE RawErr(ErrReqwest)

RawOk(status, text) == [res |-> NoResult, status |-> status, text |-> text]
(* A request that takes every status up to 300 for a success. *)
request_upto_300(raw) ==
    IF raw.res.tag # "none" THEN raw.res
    ELSE IF raw.status >= 200 /\ raw.status <= 300
      THEN IF ParsesAsT(raw.text) THEN Ok(EntityResponse(raw.text)) ELSE ErrConvert
      ELSE IF ParsesAsServerErrors(raw.text)
             THEN ErrServerErrors(ServerErrors(raw.text))
             ELSE ErrConvert

(* Client::request, after request_raw returned raw. *)
request(raw) ==
    IF raw.res.tag # "none" THEN raw.res
    ELSE IF raw.status \div 100 = 2
      THEN IF ParsesAsT(raw.text) THEN Ok(EntityResponse(raw.text)) ELSE ErrConvert
      ELSE IF ParsesAsServerErrors(raw.text)
             THEN ErrServerErrors(ServerErrors(raw.text))
             ELSE ErrConvert

(* A request_none_body that parses the body of a success. *)
request_none_body_parsing(raw) ==
    IF raw.res.tag # "none" THEN raw.res
    ELSE IF raw.status \div 100 = 2
      THEN IF raw.text.json THEN Ok(Unit) ELSE ErrConvert
      ELSE IF ParsesAsServerErrors(raw.text)
             THEN ErrServerErrors(ServerErrors(raw.text))
             ELSE ErrConvert

(* Client::request_none_body, after request_raw returned raw. *)
request_none_body(raw) ==
    IF raw.res.tag # "none" THEN raw.res
    ELSE IF raw.status \div 100 = 2
      THEN Ok(Unit)
      ELSE IF ParsesAsServerErrors(raw.text)
             THEN ErrServerErrors(ServerErrors(raw.text))
             ELSE ErrConvert

Kinds == {"request", "request_none_body"}

Decode(kind, raw) ==
    IF kind = "request" THEN request(raw) ELSE request_none_body(raw)

(* The value request_raw gives the Authorization header: the token string *)
(* itself, with no authentication scheme in front of it.                  *)
AuthorizationHeader(token) == [scheme |-> None, credentials |-> token]
NoHeader == [scheme |-> None, credentials |-> EmptyString]


---------------------------------------------------------------------------
(* Enumerated values: enum_str!. *)

(* The enums of entities.rs made by enum_str!: for each, its list of      *)
(* variant(wire string) in the order of the macro call.                   *)
ContentRightsDeclaration ==
    <<<<"DoesNotUseThirdPartyContent", "DOES_NOT_USE_THIRD_PARTY_CONTENT">>,
      <<"UsesThirdPartyContent", "USES_THIRD_PARTY_CONTENT">>>>

BundleIdSort ==
    <<<<"Id", "id">>, <<"IdDesc", "-id">>, <<"Identifier", "identifier">>,
      <<"IdentifierDesc", "-identifier">>, <<"Name", "name">>,
      <<"NameDesc", "-name">>, <<"Platform", "platform">>,
      <<"PlatformDesc", "-platform">>, <<"SeedIdType", "seedId">>,
      <<"SeedIdDesc", "-seedId">>>>

BundleIdsType ==
    <<<<"BundleIds", "bundleIds">>>>

CertificateSort ==
    <<<<"Id", "id">>, <<"IdDesc", "-id">>,
      <<"CertificateType", "certificateType">>,
      <<"CertificateTypeDesc", "-certificateType">>,
      <<"DisplayName", "displayName">>,
      <<"DisplayNameDesc", "-displayName">>,
      <<"SerialNumber", "serialNumber">>,
      <<"SerialNumberDesc", "-serialNumber">>>>

CertificatesType ==
    <<<<"Certificates", "certificates">>>>

CertificateType ==
    <<<<"IosDevelopment", "IOS_DEVELOPMENT">>,
      <<"IosDistribution", "IOS_DISTRIBUTION">>,
      <<"MacAppDistribution", "MAC_APP_DISTRIBUTION">>,
      <<"MacInstallerDistribution", "MAC_INSTALLER_DISTRIBUTION">>,
      <<"MacAppDevelopment", "MAC_APP_DEVELOPMENT">>,
      <<"DeveloperIdKext", "DEVELOPER_ID_KEXT">>,
      <<"DeveloperIdApplication", "DEVELOPER_ID_APPLICATION">>,
      <<"Development", "DEVELOPMENT">>, <<"Distribution", "DISTRIBUTION">>,
      <<"PassTypeId", "PASS_TYPE_ID">>,
      <<"PassTypeIdWithNfc", "PASS_TYPE_ID_WITH_NFC">>>>

ProfileSort ==
    <<<<"Id", "id">>, <<"IdDesc", "-id">>, <<"Name", "name">>,
      <<"NameDesc", "-name">>, <<"ProfileState", "profileState">>,
      <<"ProfileStateDesc", "-profileState">>,
      <<"ProfileType", "profileType">>,
      <<"ProfileTypeDesc", "-profileType">>>>

ProfileState ==
    <<<<"INVALID", "INVALID">>, <<"ACTIVE", "ACTIVE">>>>

ProfilesType ==
    <<<<"Profiles", "profiles">>>>

ProfileType ==
    <<<<"IosAppDevelopment", "IOS_APP_DEVELOPMENT">>,
      <<"IosAppStore", "IOS_APP_STORE">>,
      <<"IosAppAdhoc", "IOS_APP_ADHOC">>,
      <<"IosAppInhouse", "IOS_APP_INHOUSE">>,
      <<"MacAppDevelopment", "MAC_APP_DEVELOPMENT">>,
      <<"MacAppStore", "MAC_APP_STORE">>,
      <<"MacAppDirect", "MAC_APP_DIRECT">>,
      <<"TvosAppDevelopment", "TVOS_APP_DEVELOPMENT">>,
      <<"TvosAppStore", "TVOS_APP_STORE">>,
      <<"TvosAppAdhoc", "TVOS_APP_ADHOC">>,
      <<"TvosAppInhouse", "TVOS_APP_INHOUSE">>,
      <<"MacCatalystAppDevelopment", "MAC_CATALYST_APP_DEVELOPMENT">>,
      <<"MacCatalystAppStore", "MAC_CATALYST_APP_STORE">>,
      <<"MacCatalystAppDirect", "MAC_CATALYST_APP_DIRECT">>>>

ProfileCreateRequestType ==
    <<<<"Profiles", "profiles">>>>

DeviceSort ==
    <<<<"Id", "id">>, <<"IdDesc", "-id">>, <<"Name", "name">>,
      <<"NameDesc", "-name">>, <<"Platform", "platform">>,
      <<"PlatformDesc", "-platform">>, <<"Status", "status">>,
      <<"StatusDesc", "-status">>, <<"Udid", "udid">>,
      <<"UdidDesc", "-udid">>>>

DeviceType ==
    <<<<"Devices", "devices">>>>

DeviceStatus ==
    <<<<"Enabled", "ENABLED">>, <<"Disabled", "DISABLED">>,
      <<"Processing", "PROCESSING">>, <<"Ineligible", "INELIGIBLE">>>>

DeviceClass ==
    <<<<"AppleWatch", "APPLE_WATCH">>, <<"Ipad", "IPAD">>,
      <<"Iphone", "IPHONE">>, <<"Ipod", "IPOD">>,
      <<"AppleTv", "APPLE_TV">>, <<"Mac", "MAC">>>>

BundleIdPlatform ==
    <<<<"Ios", "IOS">>, <<"MacOS", "MAC_OS">>>>

UserSort ==
    <<<<"LastName", "lastName">>, <<"LastNameDesc", "-lastName">>,
      <<"Username", "username">>, <<"UsernameDesc", "-username">>>>

UserType ==
    <<<<"Users", "users">>>>

Role ==
    <<<<"Admin", "ADMIN">>, <<"Finance", "FINANCE">>,
      <<"AccountHolder", "ACCOUNT_HOLDER">>, <<"Sales", "SALES">>,
      <<"Marketing", "MARKETING">>, <<"AppManager", "APP_MANAGER">>,
      <<"Developer", "DEVELOPER">>,
      <<"AccessToReports", "ACCESS_TO_REPORTS">>,
      <<"CustomerSupport", "CUSTOMER_SUPPORT">>,
      <<"ImageManager", "IMAGE_MANAGER">>, <<"CreateApps", "CREATE_APPS">>,
      <<"CloudManagedDeveloperId", "CLOUD_MANAGED_DEVELOPER_ID">>,
      <<"CloudManagedAppDistribution", "CLOUD_MANAGED_APP_DISTRIBUTION">>>>

AppsType ==
    <<<<"Apps", "Apps">>>>

EnumTable ==
    [e \in {"ContentRightsDeclaration", "BundleIdSort", "BundleIdsType",
             "CertificateSort", "CertificatesType", "CertificateType",
             "ProfileSort", "ProfileState", "ProfilesType", "ProfileType",
             "ProfileCreateRequestType", "DeviceSort", "DeviceType",
             "DeviceStatus", "DeviceClass", "BundleIdPlatform", "UserSort",
             "UserType", "Role", "AppsType"} |->
       CASE e = "ContentRightsDeclaration" -> ContentRightsDeclaration
         [] e = "BundleIdSort" -> BundleIdSort
         [] e = "BundleIdsType" -> BundleIdsType
         [] e = "CertificateSort" -> CertificateSort
         [] e = "CertificatesType" -> CertificatesType
         [] e = "CertificateType" -> CertificateType
         [] e = "ProfileSort" -> ProfileSort
         [] e = "ProfileState" -> ProfileState
         [] e = "ProfilesType" -> ProfilesType
         [] e = "ProfileType" -> ProfileType
         [] e = "ProfileCreateRequestType" -> ProfileCreateRequestType
         [] e = "DeviceSort" -> DeviceSort
         [] e = "DeviceType" -> DeviceType
         [] e = "DeviceStatus" -> DeviceStatus
         [] e = "DeviceClass" -> DeviceClass
         [] e = "BundleIdPlatform" -> BundleIdPlatform
         [] e = "UserSort" -> UserSort
         [] e = "UserType" -> UserType
         [] e = "Role" -> Role
         [] e = "AppsType" -> AppsType
    ]

(* The place of the first arm of the match whose left side is x; side is   *)
(* 1 for the arms on variants, 2 for the arms on strings.                  *)
FirstArm(tab, side, x) ==
    CHOOSE i \in 1..Len(tab) :
       /\ tab[i][side] = x
       /\ \A j \in 1..(i - 1) : tab[j][side] # x

HasArm(tab, side, x) == \E i \in 1..Len(tab) : tab[i][side] = x

Variants(e) == {EnumTable[e][i][1] : i \in 1..Len(EnumTable[e])}

(* impl Serialize: serialize_str(match *self { $name::$variant => $str }) *)
serialize(e, v) == EnumTable[e][FirstArm(EnumTable[e], 1, v)][2]

(* A From<$name> for String that gives the name of the variant. *)
String_from_variant_name(e, v) == v

(* impl From<$name> for String: match value { $name::$variant => $str } *)
String_from(e, v) == EnumTable[e][FirstArm(EnumTable[e], 1, v)][2]

(* Result<$name, E> of visit_str. *)
NoVariant == "<no variant>"
Decoded_ok(v) == [ok |-> TRUE, variant |-> v]
Decoded_err == [ok |-> FALSE, variant |-> NoVariant]

(* A visit_str whose last arm takes every other string for the first       *)
(* variant.                                                                *)
deserialize_with_fallback(e, s) ==
    IF HasArm(EnumTable[e], 2, s)
      THEN Decoded_ok(EnumTable[e][FirstArm(EnumTable[e], 2, s)][1])
      ELSE Decoded_ok(EnumTable[e][1][1])

(* impl Deserialize, visit_str: match value { $str => Ok($name::$variant), *)
(* _ => Err(invalid_value) }                                               *)
deserialize(e, s) ==
    IF HasArm(EnumTable[e], 2, s)
      THEN Decoded_ok(EnumTable[e][FirstArm(EnumTable[e], 2, s)][1])
      ELSE Decoded_err

---------------------------------------------------------------------------
(* Query objects: query_params! and format_params!. *)

(* The query types made by query_params!: for each, its list of           *)
(* field(key, type) in the order of the macro call.                       *)
BundleIdQuery ==
    <<<<"fields_bundle_ids", "fields[bundleIds]", "String">>,
      <<"fields_profiles", "fields[profiles]", "String">>,
      <<"filter_id", "filter[id]", "String">>,
      <<"filter_identifier", "filter[identifier]", "String">>,
      <<"filter_name", "filter[name]", "String">>,
      <<"filter_platform", "filter[platform]", "BundleIdPlatform">>,
      <<"filter_seed_id", "filter[seedId]", "String">>,
      <<"include", "include", "String">>, <<"limit", "limit", "i64">>,
      <<"limit_profiles", "limit[profiles]", "i64">>,
      <<"sort", "sort", "BundleIdSort">>,
      <<"fields_bundle_id_capabilities", "fields[bundleIdCapabilities]", "String">>,
      <<"limit_bundle_id_capabilities", "limit[bundleIdCapabilities]", "i64">>,
      <<"fields_apps", "fields[apps]", "String">>>>

CertificateQuery ==
    <<<<"fields_certificates", "fields[certificates]", "String">>,
      <<"filter_id", "filter[id]", "String">>,
      <<"filter_serial_number", "filter[serialNumber]", "String">>,
      <<"limit", "limit", "i64">>, <<"sort", "sort", "CertificateSort">>,
      <<"filter_certificate_type", "filter[certificateType]", "CertificateType">>,
      <<"filter_display_name", "filter[displayName]", "String">>>>

ProfileQuery ==
    <<<<"fields_certificates", "fields[certificates]", "String">>,
      <<"fields_devices", "fields[devices]", "String">>,
      <<"filter_profiles", "filter[profiles]", "String">>,
      <<"filter_id", "filter[id]", "String">>,
      <<"filter_name", "filter[name]", "String">>,
      <<"include", "include", "String">>, <<"limit", "limit", "i64">>,
      <<"limit_certificates", "limit[certificates]", "i64">>,
      <<"limit_devices", "limit[devices]", "i64">>,
      <<"sort", "sort", "ProfileSort">>,
      <<"fields_bundle_ids", "fields[bundleIds]", "String">>,
      <<"filter_profile_state", " filter[profileState]", "ProfileState">>,
      <<"filter_profile_type", "filter[profileType]", "ProfileType">>>>

DeviceQuery ==
    <<<<"fields_devices", "fields[devices]", "String">>,
      <<"filter_id", "filter[id]", "String">>,
      <<"filter_name", "filter[name]", "String">>,
      <<"filter_platform", "filter[platform]", "BundleIdPlatform">>,
      <<"filter_status", "filter[status]", "DeviceStatus">>,
      <<"filter_udid", "filter[udid]", "String">>,
      <<"limit", "limit", "i64">>, <<"sort", "sort", "DeviceSort">>>>

UsersQuery ==
    <<<<"fields_apps", "fields[apps]", "String">>,
      <<"fields_users", "fields[users]", "String">>,
      <<"include", "include", "String">>, <<"limit", "limit", "i64">>,
      <<"sort", "sort", "UserSort">>,
      <<"filter_roles", "filter[roles]", "Role">>,
      <<"filter_visible_apps", "filter[visibleApps]", "String">>,
      <<"filter_username", "filter[username]", "String">>,
      <<"limit_visible_apps", "limit[visibleApps]", "i64">>>>

UserVisibleAppsQuery ==
    <<<<"limit", "limit", "i64">>,
      <<"fields_apps", "fields[apps]", "String">>>>

QueryTable ==
    [q \in {"BundleIdQuery", "CertificateQuery", "ProfileQuery",
             "DeviceQuery", "UsersQuery", "UserVisibleAppsQuery"} |->
       CASE q = "BundleIdQuery" -> BundleIdQuery
         [] q = "CertificateQuery" -> CertificateQuery
         [] q = "ProfileQuery" -> ProfileQuery
         [] q = "DeviceQuery" -> DeviceQuery
         [] q = "UsersQuery" -> UsersQuery
         [] q = "UserVisibleAppsQuery" -> UserVisibleAppsQuery
    ]

(* Option<$type_id>: a String in s, an i64 in n, a variant of an enum by   *)
(* its name in s.                                                          *)
NoneValue == [some |-> FALSE, s |-> "", n |-> 0]
SomeString(s) == [some |-> TRUE, s |-> s, n |-> 0]
SomeI64(n) == [some |-> TRUE, s |-> "", n |-> n]
SomeVariant(v) == [some |-> TRUE, s |-> v, n |-> 0]

Digit(d) ==
    CASE d = 0 -> "0" [] d = 1 -> "1" [] d = 2 -> "2" [] d = 3 -> "3"
      [] d = 4 -> "4" [] d = 5 -> "5" [] d = 6 -> "6" [] d = 7 -> "7"
      [] d = 8 -> "8" [] d = 9 -> "9"

RECURSIVE Digits(_)
Digits(n) == IF n < 10 THEN Digit(n) ELSE Digits(n \div 10) \o Digit(n % 10)

(* format!("{}", n) for an i64. *)
Display_i64(n) == IF n < 0 THEN "-" \o Digits(-n) ELSE Digits(n)

(* A format_params! that writes an enum with its Debug form. *)
format_params_debug(ty, val) ==
    IF ty = "String" THEN val.s
    ELSE IF ty = "i64" THEN Display_i64(val.n)
    ELSE String_from_variant_name(ty, val.s)

(* format_params!($variant : $type_id) on the value val of a field of type *)
(* ty.                                                                     *)
format_params(ty, val) ==
    IF ty = "String" THEN val.s
    ELSE IF ty = "i64" THEN Display_i64(val.n)
    ELSE String_from(ty, val.s)

(* The struct a query_params! call makes: its type and one Option per      *)
(* field, in the order of the declaration.                                 *)
NoQuery == [type |-> None, fields |-> <<>>]
Default(qt) == [type |-> qt, fields |-> [i \in 1..Len(QueryTable[qt]) |-> NoneValue]]

(* A queries() that pushes the fields from the last declared to the first. *)
RECURSIVE queries_from_last(_, _)
queries_from_last(q, i) ==
    IF i < 1 THEN <<>>
    ELSE (IF q.fields[i].some
            THEN <<[key |-> QueryTable[q.type][i][2],
                    value |-> format_params(QueryTable[q.type][i][3], q.fields[i])]>>
            ELSE <<>>)
         \o queries_from_last(q, i - 1)

(* queries(self), from field i on: if let Some(..) = self.$variant, push   *)
(* ($str, format_params!(..)), for each field in turn.                     *)
RECURSIVE queries_from(_, _)
queries_from(q, i) ==
    IF i > Len(q.fields) THEN <<>>
    ELSE (IF q.fields[i].some
            THEN <<[key |-> QueryTable[q.type][i][2],
                    value |-> format_params(QueryTable[q.type][i][3], q.fields[i])]>>
            ELSE <<>>)
         \o queries_from(q, i + 1)

queries_reversed(q) == queries_from_last(q, Len(q.fields))

queries(q) == queries_from(q, 1)

(* Vec<(String, String)> of a queries() call and the query it was called   *)
(* on (queries takes self by value).                                       *)
NoPairs == [done |-> FALSE, of |-> NoQuery, list |-> <<>>]

(* The values the setters are called with.  An enum field takes the first  *)
(* and the last variant of its type here; format_params is applied to     *)
(* every variant in the conversions below.                                 *)
Strings == {"", "a b&c"}
I64s == {0 - 120, 0, 7}

SetterValues(ty) ==
    IF ty = "String" THEN {SomeString(s) : s \in Strings}
    ELSE IF ty = "i64" THEN {SomeI64(n) : n \in I64s}
    ELSE {SomeVariant(EnumTable[ty][1][1]),
          SomeVariant(EnumTable[ty][Len(EnumTable[ty])][1])}

---------------------------------------------------------------------------
(* Conversions of single values. *)

(* The last conversion: the operation, the type, what went in (a value, or *)
(* a string to read), and what came out (a string, or a variant / error).  *)
NoConv ==
    [op |-> None, ty |-> None, val |-> NoneValue, text |-> "",
     out |-> Decoded_err]

EnumNames == DOMAIN EnumTable

WireStrings ==
    UNION {{EnumTable[e][i][2] : i \in 1..Len(EnumTable[e])} : e \in EnumNames}

(* Strings a response may carry where an enum is expected: the wire        *)
(* strings of all the enums, the names of the variants, and others.        *)
ReadStrings ==
    WireStrings
      \cup UNION {Variants(e) : e \in EnumNames}
      \cup {"", "ios", "IOS ", " IOS", "Ios", "mac_os", "ACTIVE_", "unknown"}

FormatInputs(ty) ==
    IF ty = "String"
      THEN {SomeString(s) : s \in Strings \cup {"IOS", "-5", "limit=1"}}
    ELSE IF ty = "i64"
      THEN {SomeI64(n) : n \in I64s \cup {0 - 1, 10, 200, 0 - 2147483647, 2147483647}}
    ELSE {SomeVariant(v) : v \in Variants(ty)}

---------------------------------------------------------------------------
(* Pages and the requests of the list methods. *)

(* The "links" object of a page as it arrives: "self" and, absent, null or *)
(* a URL, "next" and "first".                                              *)
Null == "<null>"
NextUrls ==
    {"https://api.appstoreconnect.apple.com/v1/bundleIds?cursor=AQ.AMx&limit=2",
     "https://api.appstoreconnect.apple.com/v1/devices?cursor=Bg&limit=1"}

WireLinks ==
    [self : {"https://api.appstoreconnect.apple.com/v1/bundleIds?limit=2"},
     next : {Absent, Null} \cup NextUrls,
     first : {Absent, Null} \cup NextUrls]

(* Option<String>: None for a missing field and for null. *)
OptionString(w) == IF w \in {Absent, Null} THEN None ELSE w

(* #[derive(Deserialize)] struct PageLinks { self_field, next, first } *)
PageLinks(w) ==
    [self_field |-> w.self, next |-> OptionString(w.next),
     first |-> OptionString(w.first)]

NoLinks == [self_field |-> None, next |-> None, first |-> None]

(* The links of the last page: as they arrived and as parsed. *)
NoPage ==
    [wire |-> [self |-> Absent, next |-> Absent, first |-> Absent],
     links |-> NoLinks]

(* Option<Vec<(String, String)>> *)
NoneQuery == [some |-> FALSE, list |-> <<>>]
SomeQuery(l) == [some |-> TRUE, list |-> l]

(* The request request_raw puts together from its arguments: the query is  *)
(* attached when there is one, and so are the body and its Content-Type.   *)
Request(method, url, q, body) ==
    [method |-> method, url |-> url,
     query |-> IF q.some THEN q.list ELSE <<>>,
     body |-> body,
     content_type |-> IF body = None THEN None ELSE "application/json"]

NoRequest ==
    [api |-> None, arg |-> None,
     req |-> Request(None, None, NoneQuery, None)]

(* The list methods that take a query: their URL and their query type. *)
ListApis ==
    [a \in {"apps", "bundle_ids", "certificates", "profiles", "devices", "users"} |->
       CASE a = "apps" ->
              <<"https://api.appstoreconnect.apple.com/v1/apps", "BundleIdQuery">>
         [] a = "bundle_ids" ->
              <<"https://api.appstoreconnect.apple.com/v1/bundleIds", "BundleIdQuery">>
         [] a = "certificates" ->
              <<"https://api.appstoreconnect.apple.com/v1/certificates", "CertificateQuery">>
         [] a = "profiles" ->
              <<"https://api.appstoreconnect.apple.com/v1/profiles", "ProfileQuery">>
         [] a = "devices" ->
              <<"https://api.appstoreconnect.apple.com/v1/devices", "DeviceQuery">>
         [] a = "users" ->
              <<"https://api.appstoreconnect.apple.com/v1/users", "UsersQuery">>]

ByUrlApis ==
    {"bundle_ids_by_url", "certificates_by_url", "profiles_by_url",
     "devices_by_url", "users_by_url"}

(* A *_by_url that asks for a page size with the URL. *)
by_url_with_limit(url) ==
    Request("GET", url, SomeQuery(<<[key |-> "limit", value |-> "200"]>>), None)

(* bundle_ids_by_url and the four like it:                                *)
(* self.request(Method::GET, url, None, None)                             *)
by_url(url) == Request("GET", url, NoneQuery, None)

(* bundle_ids and the five like it:                                       *)
(* self.request(Method::GET, URL, Some(query.queries()), None)            *)
list(api, q) == Request("GET", ListApis[api][1], SomeQuery(queries(q)), None)

---------------------------------------------------------------------------
(* State. *)

IdleTask ==
    [pc |-> "idle", kind |-> "request", stale |-> 0, now |-> 0,
     tok |-> EmptyString, auth |-> NoHeader, status |-> 0]

(* What the call that returned in the last step, if one did, gave its     *)
(* caller; dropped is the task whose call was abandoned in the last step, *)
(* if one was.                                                            *)
NoReturn ==
    [caller |-> NoTask, dropped |-> NoTask, kind |-> "request",
     wire |-> NoWire, raw |-> RawErr(NoResult), res |-> NoResult]

NoBuild == [res |-> NoResult, token |-> NoToken, signed |-> FALSE]

Init ==
    /\ builder = DefaultBuilder
    /\ buildRes = NoBuild
    /\ cache = NoToken
    /\ holder = NoTask
    /\ waitq = <<>>
    /\ task = [t \in Tasks |-> IdleTask]
    /\ ret = NoReturn
    /\ clock = Epoch
    /\ issued = 0
    /\ query = NoQuery
    /\ calls = <<>>
    /\ pairs = NoPairs
    /\ conv = NoConv
    /\ page = NoPage
    /\ sent = NoRequest

(* The clock moves forward to the next sampled instant.  It reads Epoch    *)
(* while the client is being built.                                       *)
Tick(points) ==
    /\ buildRes # NoBuild
    /\ \E c \in points :
         /\ c > clock
         /\ \A d \in points : d > clock => c <= d
         /\ clock' = c
    /\ ret' = NoReturn
    /\ UNCHANGED <<builder, buildRes, cache, holder, waitq, task,
                   issued>>
    /\ UNCHANGED dataVars

---------------------------------------------------------------------------
(* ClientBuilder operations. *)

set_iss ==
    /\ buildRes = NoBuild
    /\ builder.iss = None
    /\ builder' = [builder EXCEPT !.iss = "abc"]
    /\ UNCHANGED <<buildRes, cache, holder, waitq, task, ret, clock,
                   issued>>
    /\ UNCHANGED dataVars

set_kid ==
    /\ buildRes = NoBuild
    /\ builder.kid = None
    /\ builder' = [builder EXCEPT !.kid = "k1"]
    /\ UNCHANGED <<buildRes, cache, holder, waitq, task, ret, clock,
                   issued>>
    /\ UNCHANGED dataVars

set_ec_der ==
    /\ buildRes = NoBuild
    /\ builder.ec_der = None
    /\ \E k \in KeyMaterials : builder' = [builder EXCEPT !.ec_der = k]
    /\ UNCHANGED <<buildRes, cache, holder, waitq, task, ret, clock,
                   issued>>
    /\ UNCHANGED dataVars

(* ClientBuilder::build consumes the builder. *)
Build ==
    /\ buildRes = NoBuild
    /\ \E signOk \in SignOutcomes(builder.ec_der) :
         LET r == build(builder, signOk, clock, issued + 1) IN
           /\ buildRes' = r
           /\ cache' = r.token
           /\ issued' = IF r.res.tag = "Ok" THEN issued + 1 ELSE issued
    /\ UNCHANGED <<builder, holder, waitq, task, ret, clock>>
    /\ UNCHANGED dataVars

---------------------------------------------------------------------------
(* A request: request / request_none_body -> request_raw -> load_token. *)

(* The call of task t returns: the transport had delivered wire,           *)
(* request_raw gave raw, the decoder of the call's kind turns it into the  *)
(* caller's result, the locals are dropped.                                *)
Finish(t, wire, raw) ==
    /\ task' = [task EXCEPT ![t] = IdleTask]
    /\ ret' = [caller |-> t, dropped |-> NoTask, kind |-> task[t].kind,
               wire |-> wire, raw |-> raw,
               res |-> Decode(task[t].kind, raw)]

(* An expiry test that is off by one. *)
Expired_at_exp(now, exp) == now >= exp

(* An expiry test that regenerates a token in the last seconds of its      *)
(* cache window.                                                           *)
Expired_with_margin(now, exp) == now + BackdateSecs > exp

(* The expiry test of load_token. *)
Expired(now, exp) == now > exp

(* The caller starts a request; request_raw calls load_token, which waits  *)
(* for the token lock (tokio's Mutex serves waiters first come, first      *)
(* served).  stale records the cached token the caller found expired, if   *)
(* it did.                                                                 *)
Call(t, kinds) ==
    /\ ClientExists
    /\ task[t].pc = "idle"
    /\ \E k \in kinds :
         task' = [task EXCEPT ![t] =
                    [IdleTask EXCEPT !.pc = "wait", !.kind = k,
                                     !.stale = IF Expired(clock, cache.exp)
                                                 THEN cache.token.sig ELSE 0]]
    /\ waitq' = Append(waitq, t)
    /\ ret' = NoReturn
    /\ UNCHANGED <<builder, buildRes, cache, holder, clock,
                   issued>>
    /\ UNCHANGED dataVars

(* A load_token that decides to regenerate from what the caller saw        *)
(* before it waited for the lock.                                          *)
load_token_lock_checked_before(t) ==
    /\ task[t].pc = "wait"
    /\ holder = NoTask
    /\ waitq # <<>> /\ Head(waitq) = t
    /\ holder' = t
    /\ waitq' = Tail(waitq)
    /\ task' = [task EXCEPT ![t].now = clock,
                            ![t].pc = IF task[t].stale # 0 THEN "gen" ELSE "ret"]
    /\ ret' = NoReturn
    /\ UNCHANGED <<builder, buildRes, cache, clock, issued>>
    /\ UNCHANGED dataVars

(* A load_token whose check-and-regenerate section is not guarded: the     *)
(* task enters it whether or not another task is inside.                   *)
load_token_lock_unguarded(t) ==
    /\ task[t].pc = "wait"
    /\ waitq # <<>> /\ Head(waitq) = t
    /\ holder' = t
    /\ waitq' = Tail(waitq)
    /\ task' = [task EXCEPT ![t].now = clock,
                            ![t].pc = IF Expired(clock, cache.exp) THEN "gen" ELSE "ret"]
    /\ ret' = NoReturn
    /\ UNCHANGED <<builder, buildRes, cache, clock, issued>>
    /\ UNCHANGED dataVars

(* load_token: the lock is acquired, the clock is read and compared with   *)
(* the cached exp.                                                         *)
load_token_lock(t) ==
    /\ task[t].pc = "wait"
    /\ holder = NoTask
    /\ waitq # <<>> /\ Head(waitq) = t
    /\ holder' = t
    /\ waitq' = Tail(waitq)
    /\ task' = [task EXCEPT ![t].now = clock,
                            ![t].pc = IF Expired(clock, cache.exp) THEN "gen" ELSE "ret"]
    /\ ret' = NoReturn
    /\ UNCHANGED <<builder, buildRes, cache, clock, issued>>
    /\ UNCHANGED dataVars

(* A load_token that resets the cache to ClientToken::default() when the   *)
(* signing fails.                                                          *)
load_token_gen_reset_on_error(t) ==
    /\ task[t].pc = "gen"
    /\ holder = t
    /\ \E signOk \in SignOutcomes(builder.ec_der) :
         IF signOk
           THEN /\ cache' = gen_token(builder.iss, builder.kid, clock, issued + 1)
                /\ issued' = issued + 1
                /\ task' = [task EXCEPT ![t].pc = "ret"]
                /\ ret' = NoReturn
                /\ UNCHANGED holder
           ELSE /\ Finish(t, NoWire, RawErr(ErrKey))
                /\ holder' = NoTask
                /\ cache' = NoToken
                /\ UNCHANGED issued
    /\ UNCHANGED <<builder, buildRes, waitq, clock>>
    /\ UNCHANGED dataVars

(* A load_token that replaces the token string in place and leaves the     *)
(* expiry of the token before it.                                          *)
load_token_gen_string_only(t) ==
    /\ task[t].pc = "gen"
    /\ holder = t
    /\ \E signOk \in SignOutcomes(builder.ec_der) :
         IF signOk
           THEN /\ cache' = [cache EXCEPT !.token =
                               gen_token(builder.iss, builder.kid, clock, issued + 1).token]
                /\ issued' = issued + 1
                /\ task' = [task EXCEPT ![t].pc = "ret"]
                /\ ret' = NoReturn
                /\ UNCHANGED holder
           ELSE /\ Finish(t, NoWire, RawErr(ErrKey))
                /\ holder' = NoTask
                /\ UNCHANGED <<cache, issued>>
    /\ UNCHANGED <<builder, buildRes, waitq, clock>>
    /\ UNCHANGED dataVars

(* A load_token that, when the signing fails, keeps the expired token for  *)
(* another cache window.                                                   *)
load_token_gen_backoff(t) ==
    /\ task[t].pc = "gen"
    /\ holder = t
    /\ \E signOk \in SignOutcomes(builder.ec_der) :
         IF signOk
           THEN /\ cache' = gen_token(builder.iss, builder.kid, clock, issued + 1)
                /\ issued' = issued + 1
                /\ task' = [task EXCEPT ![t].pc = "ret"]
                /\ ret' = NoReturn
                /\ UNCHANGED holder
           ELSE /\ Finish(t, NoWire, RawErr(ErrKey))
                /\ holder' = NoTask
                /\ cache' = [cache EXCEPT !.exp = clock + CacheSecs]
                /\ UNCHANGED issued
    /\ UNCHANGED <<builder, buildRes, waitq, clock>>
    /\ UNCHANGED dataVars

(* A request_raw that sends the request without a token when load_token    *)
(* fails (unwrap_or_default in place of `?`).                              *)
load_token_gen_sends_anyway(t) ==
    /\ task[t].pc = "gen"
    /\ holder = t
    /\ \E signOk \in SignOutcomes(builder.ec_der) :
         IF signOk
           THEN /\ cache' = gen_token(builder.iss, builder.kid, clock, issued + 1)
                /\ issued' = issued + 1
                /\ task' = [task EXCEPT ![t].pc = "ret"]
                /\ UNCHANGED holder
           ELSE /\ task' = [task EXCEPT ![t].pc = "send", ![t].now = 0]
                /\ holder' = NoTask
                /\ UNCHANGED <<cache, issued>>
    /\ ret' = NoReturn
    /\ UNCHANGED <<builder, buildRes, waitq, clock>>
    /\ UNCHANGED dataVars

(* load_token: *lock = gen_token(..)?  gen_token reads the clock itself.   *)
(* On a signing error the guard is dropped and the error returned.         *)
load_token_gen(t) ==
    /\ task[t].pc = "gen"
    /\ holder = t
    /\ \E signOk \in SignOutcomes(builder.ec_der) :
         IF signOk
           THEN /\ cache' = gen_token(builder.iss, builder.kid, clock, issued + 1)
                /\ issued' = issued + 1
                /\ task' = [task EXCEPT ![t].pc = "ret"]
                /\ ret' = NoReturn
                /\ UNCHANGED holder
           ELSE /\ Finish(t, NoWire, RawErr(ErrKey))
                /\ holder' = NoTask
                /\ UNCHANGED <<cache, issued>>
    /\ UNCHANGED <<builder, buildRes, waitq, clock>>
    /\ UNCHANGED dataVars

(* A load_token that hands the guard out with the token: the lock stays    *)
(* held while the request is sent.                                         *)
load_token_ret_keeps_guard(t) ==
    /\ task[t].pc = "ret"
    /\ holder = t
    /\ task' = [task EXCEPT ![t].pc = "send",
                            ![t].now = 0,
                            ![t].tok = cache.token,
                            ![t].auth = AuthorizationHeader(cache.token)]
    /\ ret' = NoReturn
    /\ UNCHANGED <<builder, buildRes, cache, holder, waitq, clock,
                   issued>>
    /\ UNCHANGED dataVars

(* load_token returns lock.token.clone() and the guard is dropped;         *)
(* request_raw puts the string in the Authorization header.                *)
load_token_ret(t) ==
    /\ task[t].pc = "ret"
    /\ holder = t
    /\ holder' = NoTask
    /\ task' = [task EXCEPT ![t].pc = "send",
                            ![t].now = 0,
                            ![t].tok = cache.token,
                            ![t].auth = AuthorizationHeader(cache.token)]
    /\ ret' = NoReturn
    /\ UNCHANGED <<builder, buildRes, cache, waitq, clock,
                   issued>>
    /\ UNCHANGED dataVars

(* The outcomes of serde_json::to_string(&body)? in request_raw: there is  *)
(* none to fail for a call without a body; for a call with one the error   *)
(* path exists.                                                            *)
NoBody == {TRUE}
SomeBody == {TRUE, FALSE}

(* A request_raw that starts over, with a new load_token, when the         *)
(* transport fails.                                                        *)
Send_retrying(t, statuses, serialised) ==
    /\ task[t].pc = "send"
    /\ \/ /\ \E st \in statuses :
               task' = [task EXCEPT ![t].pc = "body", ![t].status = st]
          /\ ret' = NoReturn
          /\ UNCHANGED waitq
       \/ /\ task' = [task EXCEPT ![t].pc = "wait",
                                   ![t].tok = EmptyString,
                                   ![t].auth = NoHeader]
          /\ waitq' = Append(waitq, t)
          /\ ret' = NoReturn
       \/ /\ FALSE \in serialised
          /\ Finish(t, NoWire, RawErr(ErrConvert))
          /\ UNCHANGED waitq
    /\ UNCHANGED <<builder, buildRes, cache, holder, clock, issued>>
    /\ UNCHANGED dataVars

(* The request is put together (the body, when the call has one, is        *)
(* serialised) and sent; resp.await?: the transport answers with a status  *)
(* or fails.                                                               *)
Send(t, statuses, serialised) ==
    /\ task[t].pc = "send"
    /\ \/ /\ \E st \in statuses :
               task' = [task EXCEPT ![t].pc = "body", ![t].status = st]
          /\ ret' = NoReturn
       \/ Finish(t, NoWire, RawErr(ErrReqwest))
       \/ /\ FALSE \in serialised
          /\ Finish(t, NoWire, RawErr(ErrConvert))
    /\ UNCHANGED <<builder, buildRes, cache, holder, waitq, clock,
                   issued>>
    /\ UNCHANGED dataVars

(* A request that forgets the cached token when the server answers outside *)
(* 2xx.                                                                    *)
Receive_invalidating(t, bodies) ==
    /\ task[t].pc = "body"
    /\ \/ \E text \in bodies :
            Finish(t, Wire(task[t].status, text), RawOk(task[t].status, text))
       \/ Finish(t, NoWire, RawErr(ErrReqwest))
    /\ cache' = IF task[t].status \div 100 = 2 THEN cache ELSE [cache EXCEPT !.exp = 0]
    /\ UNCHANGED <<builder, buildRes, holder, waitq, clock, issued>>
    /\ UNCHANGED dataVars

(* resp.text().await?, then Ok((status, text)) and the decoder. *)
Receive(t, bodies) ==
    /\ task[t].pc = "body"
    /\ \/ \E text \in bodies :
            Finish(t, Wire(task[t].status, text), RawOk(task[t].status, text))
       \/ Finish(t, NoWire, RawErr(ErrReqwest))
    /\ UNCHANGED <<builder, buildRes, cache, holder, waitq, clock,
                   issued>>
    /\ UNCHANGED dataVars

(* The queue without the waiter t. *)
Without(q, t) == SelectSeq(q, LAMBDA u : u # t)

(* An abandonment that leaves the waiter in the queue of the lock. *)
Abandon_keeps_waiter(t) ==
    /\ task[t].pc \in {"wait", "send", "body"}
    /\ task' = [task EXCEPT ![t] = IdleTask]
    /\ ret' = [NoReturn EXCEPT !.dropped = t]
    /\ UNCHANGED <<builder, buildRes, cache, holder, waitq, clock, issued>>
    /\ UNCHANGED dataVars

(* The caller drops the future of its request at one of its suspension     *)
(* points: self.token.lock().await (the Acquire future leaves the queue of *)
(* the lock when dropped), resp.await, resp.text().await.  load_token has  *)
(* no suspension point between taking the lock and returning, so a call is *)
(* never dropped with the guard alive.                                     *)
Abandon(t) ==
    /\ task[t].pc \in {"wait", "send", "body"}
    /\ task' = [task EXCEPT ![t] = IdleTask]
    /\ waitq' = Without(waitq, t)
    /\ ret' = [NoReturn EXCEPT !.dropped = t]
    /\ UNCHANGED <<builder, buildRes, cache, holder, clock, issued>>
    /\ UNCHANGED dataVars

BuilderNext == set_iss \/ set_kid \/ set_ec_der \/ Build

(* Concurrent callers of request, with the small response alphabet. *)
Next ==
    \/ Tick(ClockPoints)
    \/ BuilderNext
    \/ \E t \in Tasks :
         \/ Call(t, {"request"})
         \/ load_token_lock(t)
         \/ load_token_gen(t)
         \/ load_token_ret(t)
         \/ Send(t, FewStatuses, NoBody)
         \/ Receive(t, FewBodies)

Spec == Init /\ [][Next]_vars

(* One caller at a time, of request and request_none_body, with every      *)
(* status and body of the alphabet.                                        *)
NextSeq ==
    \/ Tick(ClockPoints)
    \/ BuilderNext
    \/ Call(1, Kinds)
    \/ load_token_lock(1)
    \/ load_token_gen(1)
    \/ load_token_ret(1)
    \/ Send(1, AllStatuses, SomeBody)
    \/ Receive(1, AllBodies)

SpecSeq == Init /\ [][NextSeq]_vars

(* Concurrent callers that await every request they start.  The runtime    *)
(* polls a task that can take the lock or is inside load_token, and the    *)
(* transport ends every exchange: these steps are weakly fair.  Calls and  *)
(* the clock are not.                                                      *)
NextFair ==
    \/ Tick(FirstPeriod)
    \/ BuilderNext
    \/ \E t \in Tasks :
         \/ Call(t, {"request"})
         \/ load_token_lock(t)
         \/ load_token_gen(t)
         \/ load_token_ret(t)
         \/ Send(t, FewStatuses, NoBody)
         \/ Receive(t, FewBodies)

SpecFair ==
    /\ Init
    /\ [][NextFair]_vars
    /\ \A t \in Tasks :
         WF_vars(\/ load_token_lock(t)
                 \/ load_token_gen(t)
                 \/ load_token_ret(t)
                 \/ Send(t, FewStatuses, NoBody)
                 \/ Receive(t, FewBodies))

(* Concurrent callers that may abandon their requests.  The runtime polls  *)
(* a task that can take the lock or is inside load_token, and the          *)
(* transport ends every exchange, with an answer or an error: these steps  *)
(* are weakly fair.  Calls, abandonments and the clock are not.            *)
NextCancel ==
    \/ Tick(FirstPeriod)
    \/ BuilderNext
    \/ \E t \in Tasks :
         \/ Call(t, {"request"})
         \/ load_token_lock(t)
         \/ load_token_gen(t)
         \/ load_token_ret(t)
         \/ Send(t, FewStatuses, NoBody)
         \/ Receive(t, FewBodies)
         \/ Abandon(t)

Progress(t) ==
    \/ load_token_lock(t)
    \/ load_token_gen(t)
    \/ load_token_ret(t)
    \/ Send(t, FewStatuses, NoBody)
    \/ Receive(t, FewBodies)

SpecCancel ==
    /\ Init
    /\ [][NextCancel]_vars
    /\ \A t \in Tasks : WF_vars(Progress(t))

---------------------------------------------------------------------------
(* Query objects, built with the setters and turned into pairs. *)

(* Q::default() *)
default(qt) ==
    /\ query = NoQuery
    /\ conv = NoConv
    /\ query' = Default(qt)
    /\ calls' = <<>>
    /\ pairs' = NoPairs
    /\ UNCHANGED <<conv, page, sent>>
    /\ UNCHANGED clientVars

(* pub fn $variant(mut self, v) -> Self: field i is set to Some(v). *)
setter(i, v) ==
    /\ query # NoQuery
    /\ Len(calls) < MaxSetters
    /\ i \in 1..Len(query.fields)
    /\ v \in SetterValues(QueryTable[query.type][i][3])
    /\ query' = [query EXCEPT !.fields[i] = v]
    /\ calls' = Append(calls, [field |-> i, value |-> v])
    /\ UNCHANGED <<pairs, conv, page, sent>>
    /\ UNCHANGED clientVars

(* queries(self): the query is consumed. *)
Queries ==
    /\ query # NoQuery
    /\ pairs' = [done |-> TRUE, of |-> query, list |-> queries(query)]
    /\ query' = NoQuery
    /\ UNCHANGED <<calls, conv, page, sent>>
    /\ UNCHANGED clientVars

(* format_params! alone, on one value of a field of type ty in place of a  *)
(* query.                                                                  *)
FormatParams(ty, val) ==
    /\ conv = NoConv
    /\ query = NoQuery /\ ~pairs.done
    /\ conv' = [op |-> "format_params", ty |-> ty, val |-> val,
                text |-> format_params(ty, val), out |-> Decoded_err]
    /\ UNCHANGED <<query, calls, pairs, page, sent>>
    /\ UNCHANGED clientVars

(* The setters called on the query under construction. *)
Set ==
    \E i \in DOMAIN query.fields :
       \E v \in SetterValues(QueryTable[query.type][i][3]) : setter(i, v)

NextQuery ==
    \/ \E qt \in DOMAIN QueryTable : default(qt)
    \/ Set
    \/ Queries
    \/ \E ty \in {"String", "i64"} \cup EnumNames :
         \E val \in FormatInputs(ty) : FormatParams(ty, val)

SpecQuery == Init /\ [][NextQuery]_vars

---------------------------------------------------------------------------
(* Conversions of single values: each behaviour converts one value. *)

(* A variant is written by its serializer. *)
Serialize(e, v) ==
    /\ conv = NoConv
    /\ conv' = [op |-> "serialize", ty |-> e, val |-> SomeVariant(v),
                text |-> serialize(e, v), out |-> Decoded_err]
    /\ UNCHANGED <<query, calls, pairs, page, sent>>
    /\ UNCHANGED clientVars

(* What was written is read by the deserializer of the same enum. *)
ReadBack ==
    /\ conv.op = "serialize"
    /\ conv' = [conv EXCEPT !.op = "round trip",
                            !.out = deserialize(conv.ty, conv.text)]
    /\ UNCHANGED <<query, calls, pairs, page, sent>>
    /\ UNCHANGED clientVars

(* A string of a response is read as enum e. *)
Deserialize(e, s) ==
    /\ conv = NoConv
    /\ conv' = [op |-> "deserialize", ty |-> e, val |-> NoneValue,
                text |-> s, out |-> deserialize(e, s)]
    /\ UNCHANGED <<query, calls, pairs, page, sent>>
    /\ UNCHANGED clientVars

NextConv ==
    \/ \E e \in EnumNames : \E v \in Variants(e) : Serialize(e, v)
    \/ ReadBack
    \/ \E e \in EnumNames : \E s \in ReadStrings : Deserialize(e, s)

SpecConv == Init /\ [][NextConv]_vars

---------------------------------------------------------------------------
(* Pages: a page arrives, the caller follows its links.next or starts a    *)
(* list anew.                                                              *)

(* The links of a page response are parsed. *)
Page(w) ==
    /\ page' = [wire |-> w, links |-> PageLinks(w)]
    /\ UNCHANGED <<query, calls, pairs, conv, sent>>
    /\ UNCHANGED clientVars

(* The caller follows links.next of the last page with a *_by_url method. *)
ByUrl(api) ==
    /\ page.links.next # None
    /\ sent' = [api |-> api, arg |-> page.links.next,
                req |-> by_url(page.links.next)]
    /\ UNCHANGED <<query, calls, pairs, conv, page>>
    /\ UNCHANGED clientVars

(* The queries a list is started with here: the default one and those with *)
(* one field set.                                                          *)
ListQueries(qt) ==
    {Default(qt)}
      \cup {[Default(qt) EXCEPT !.fields[p[1]] = p[2]] :
              p \in UNION {{<<i, v>> : v \in SetterValues(QueryTable[qt][i][3])} :
                             i \in 1..Len(QueryTable[qt])}}

(* The caller starts a list with the query q. *)
List(api, q) ==
    /\ sent' = [api |-> api, arg |-> None, req |-> list(api, q)]
    /\ UNCHANGED <<query, calls, pairs, conv, page>>
    /\ UNCHANGED clientVars

NextPage ==
    \/ \E w \in WireLinks : Page(w)
    \/ \E api \in ByUrlApis : ByUrl(api)
    \/ \E api \in DOMAIN ListApis : \E q \in ListQueries(ListApis[api][2]) : List(api, q)

SpecPage == Init /\ [][NextPage]_vars

---------------------------------------------------------------------------
(* gen_token over the range of the clock. *)

(* Clock readings at the two ends of the range of usize and in between. *)
Readings ==
    {0, 1, BackdateSecs - 1, BackdateSecs, BackdateSecs + 1, Epoch,
     UsizeRange - ValiditySecs - 1, UsizeRange - ValiditySecs,
     UsizeRange - CacheSecs - 1, UsizeRange - CacheSecs, UsizeRange - 1}

(* gen_token(iss, header, encoding_key) at the clock reading now.  The      *)
(* claims are computed before the signing: a build with overflow checks    *)
(* panics there when the arithmetic leaves the range, a build without      *)
(* them goes on with the wrapped values.  The signing may fail.            *)
GenToken ==
    /\ buildRes = NoBuild
    /\ builder.iss # None /\ builder.kid # None /\ builder.ec_der # None
    /\ issued < MaxPeriods
    /\ \E now \in Readings, checked \in BOOLEAN,
          signOk \in SignOutcomes(builder.ec_der) :
         /\ clock' = now
         /\ IF checked /\ Overflows(now)
              THEN /\ ret' = [NoReturn EXCEPT
                                !.kind = "gen_token",
                                !.res = Panicked(IF now < BackdateSecs
                                                   THEN "attempt to subtract with overflow"
                                                   ELSE "attempt to add with overflow")]
                   /\ UNCHANGED <<cache, issued>>
            ELSE IF ~signOk
              THEN /\ ret' = [NoReturn EXCEPT !.kind = "gen_token", !.res = ErrKey]
                   /\ UNCHANGED <<cache, issued>>
            ELSE /\ ret' = [NoReturn EXCEPT !.kind = "gen_token", !.res = Ok(Unit)]
                 /\ cache' = gen_token(builder.iss, builder.kid, now, issued + 1)
                 /\ issued' = issued + 1
    /\ UNCHANGED <<builder, buildRes, holder, waitq, task>>
    /\ UNCHANGED dataVars

NextGen ==
    \/ set_iss
    \/ set_kid
    \/ set_ec_der
    \/ GenToken

SpecGen == Init /\ [][NextGen]_vars

---------------------------------------------------------------------------
(* Properties. *)

(* The caller has its token from load_token and its request is in flight. *)
Returned(t) == task[t].pc \in {"send", "body"}

(* The cached expiry of the generation that signed tok (iat = now - 300,   *)
(* cached exp = now + 600).                                                *)
CachedExpOf(tok) == tok.claims.iat + 300 + 600

C2_NoRedundantSigning ==
    [][ /\ \A t \in Tasks :
             /\ (task[t].pc = "wait" /\ task'[t].pc # "wait" /\ clock <= cache.exp)
                  => (task'[t].pc = "ret" /\ cache' = cache /\ issued' = issued)
             /\ (task[t].pc = "ret" /\ task'[t].pc = "send")
                  => (task'[t].tok = cache.token /\ cache' = cache /\ issued' = issued)
             /\ task'[t].pc = "gen" => task'[t].now > cache'.exp
        /\ (ClientExists /\ (cache' # cache \/ issued' # issued))
             => \E t \in Tasks : task[t].pc = "gen" /\ task[t].now > cache.exp
      ]_vars

C2_Witness ==
    \E t \in Tasks :
      /\ task[t].pc = "send"
      /\ task[t].stale = 0
      /\ task[t].tok = cache.token
      /\ issued = 1
      /\ clock = cache.exp

(* C3: when load_token is about to hand the cached token to its caller,    *)
(* the cached expires_at is not before the clock value the call read under *)
(* the lock, and the signed expiration of the token is at least 300        *)
(* seconds after that clock value.                                         *)
C3_HandedTokenNotExpired ==
    \A t \in Tasks :
      task[t].pc = "ret" =>
        /\ cache.exp >= task[t].now
        /\ cache.token.claims.exp >= task[t].now + 300
        /\ cache.token.claims.exp > task[t].now

(* The tightest case: the clock read equals the cached expires_at. *)
C3_Witness ==
    \E t \in Tasks :
      /\ task[t].pc = "ret"
      /\ task[t].now = cache.exp
      /\ cache.token.claims.exp = task[t].now + 300

(* C4: every outbound request carries the header Authorization: Bearer     *)
(* <token>, where <token> is the string load_token returned for that       *)
(* request.  (The code sends the token string alone, with no "Bearer "     *)
(* before it.)                                                             *)
C4_BearerHeader ==
    \A t \in Tasks :
      Returned(t) =>
        task[t].auth = [scheme |-> "Bearer", credentials |-> task[t].tok]

---------------------------------------------------------------------------
(* The decoders, on what request_raw returned in the last step. *)

(* A call returned in the last step after request_raw gave a status and a  *)
(* body.                                                                   *)
Decoded == ret.caller # NoTask /\ ret.raw.res.tag = "none"

Is2xx(status) == 200 <= status /\ status <= 299

(* The body is a well-formed structured error: JSON with an errors list    *)
(* whose entries all have status, code, title and detail.                  *)
WellFormedError(text) ==
    /\ text.json
    /\ text.hasErrors
    /\ \A i \in 1..Len(text.errors) :
         /\ text.errors[i].status # Absent
         /\ text.errors[i].code # Absent
         /\ text.errors[i].title # Absent
         /\ text.errors[i].detail # Absent

(* The body is a well-formed success payload of type T. *)
WellFormedPayload(text) ==
    text.json /\ text.data # Absent /\ text.links # Absent

(* C5: request and request_none_body take the success branch exactly when  *)
(* 200 <= status <= 299: a 2xx response gives Ok or a decode error and     *)
(* never ServerErrors, whatever its body; any other status gives           *)
(* ServerErrors or a decode error and never Ok, whatever its body; and a   *)
(* body that parses both as a payload and as a structured error gives Ok   *)
(* exactly for the 2xx statuses and ServerErrors exactly for the others.   *)
C5_BranchByStatusOnly ==
    Decoded =>
      /\ Is2xx(ret.raw.status) => ret.res.tag \in {"Ok", "Convert"}
      /\ ~Is2xx(ret.raw.status) => ret.res.tag \in {"ServerErrors", "Convert"}
      /\ (WellFormedPayload(ret.raw.text) /\ WellFormedError(ret.raw.text)) =>
           /\ ret.res.tag = "Ok" <=> Is2xx(ret.raw.status)
           /\ ret.res.tag = "ServerErrors" <=> ~Is2xx(ret.raw.status)
      /\ ret.kind = "request_none_body" =>
           (ret.res.tag = "Ok" <=> Is2xx(ret.raw.status))

(* Status 300 with a body of both shapes is a failure. *)
C5_Witness ==
    /\ Decoded
    /\ ret.kind = "request"
    /\ ret.raw.status = 300
    /\ WellFormedPayload(ret.raw.text)
    /\ ret.res.tag = "ServerErrors"

(* C6: for a non-2xx status whose body is a well-formed structured error,  *)
(* request and request_none_body fail with ServerErrors holding the        *)
(* entries of the body, as many and in the same order, each with its       *)
(* status, code, title and detail.                                         *)
C6_ServerErrorsPreserved ==
    (Decoded /\ ~Is2xx(ret.raw.status) /\ WellFormedError(ret.raw.text)) =>
      /\ ret.res.tag = "ServerErrors"
      /\ Len(ret.res.errors) = Len(ret.raw.text.errors)
      /\ \A i \in 1..Len(ret.raw.text.errors) :
           /\ ret.res.errors[i].status = ret.raw.text.errors[i].status
           /\ ret.res.errors[i].code = ret.raw.text.errors[i].code
           /\ ret.res.errors[i].title = ret.raw.text.errors[i].title
           /\ ret.res.errors[i].detail = ret.raw.text.errors[i].detail

C6_Witness ==
    /\ Decoded
    /\ ret.raw.status = 404
    /\ Len(ret.raw.text.errors) = 2
    /\ ret.res.tag = "ServerErrors"
    /\ ret.res.errors[1].code = "NOT_FOUND"
    /\ ret.res.errors[2].code = "ENTITY_ERROR"

(* C7: for a non-2xx status whose body is not a well-formed structured     *)
(* error, request and request_none_body fail with Convert: not with        *)
(* ServerErrors, and not with a success.                                   *)
C7_MalformedErrorIsConvert ==
    (Decoded /\ ~Is2xx(ret.raw.status) /\ ~WellFormedError(ret.raw.text)) =>
      ret.res.tag = "Convert"

(* An entry without detail. *)
C7_Witness ==
    /\ Decoded
    /\ ret.raw.status = 404
    /\ ret.raw.text.hasErrors
    /\ Len(ret.raw.text.errors) = 2
    /\ ret.raw.text.errors[2].detail = Absent
    /\ ret.res.tag = "Convert"

(* C8: for a 2xx status whose body does not parse as the success type,     *)
(* request fails with Convert: no success value and no ServerErrors.       *)
C8_UnparsableSuccessIsConvert ==
    (Decoded /\ ret.kind = "request" /\ Is2xx(ret.raw.status)
       /\ ~WellFormedPayload(ret.raw.text)) =>
      /\ ret.res.tag = "Convert"
      /\ ret.res.value = NoValue

(* A JSON body with data and without links. *)
C8_Witness ==
    /\ Decoded
    /\ ret.kind = "request"
    /\ ret.raw.status = 200
    /\ ret.raw.text.json
    /\ ret.raw.text.data # Absent
    /\ ret.raw.text.links = Absent
    /\ ret.res.tag = "Convert"

(* C9: request_none_body gives Ok(()) for every 2xx status whatever the    *)
(* body, and for every other status the result request gives for the same  *)
(* status and body.                                                        *)
C9_NoneBodyDiscardsBody ==
    (Decoded /\ ret.kind = "request_none_body") =>
      /\ Is2xx(ret.raw.status) => ret.res = Ok(Unit)
      /\ ~Is2xx(ret.raw.status) => ret.res = request(ret.raw)

C9_Witness ==
    /\ Decoded
    /\ ret.kind = "request_none_body"
    /\ ret.raw.status = 204
    /\ ~ret.raw.text.json
    /\ ret.res = Ok(Unit)

---------------------------------------------------------------------------
(* C10: build gives Error::Message exactly when the issuer, the key id or  *)
(* the key material is unset, without reaching the signing capability and  *)
(* before any request; a Client exists, and a caller is inside a request,  *)
(* only with all three set.                                                *)
C10_MissingFieldFailsBuild ==
    /\ buildRes # NoBuild =>
         /\ buildRes.res.tag = "Message"
              <=> (builder.iss = None \/ builder.kid = None \/ builder.ec_der = None)
         /\ buildRes.res.tag = "Message" =>
              /\ ~buildRes.signed
              /\ issued = 0
              /\ cache = NoToken
              /\ \A t \in Tasks : task[t].pc = "idle"
              /\ ret = NoReturn
    /\ (ClientExists \/ \E t \in Tasks : task[t].pc # "idle") =>
         (builder.iss # None /\ builder.kid # None /\ builder.ec_der # None)

(* issuer "abc", key id missing. *)
C10_Witness ==
    /\ builder.iss = "abc"
    /\ builder.kid = None
    /\ buildRes.res.tag = "Message"
    /\ ~buildRes.signed


---------------------------------------------------------------------------
(* C11: ClientBuilder::build generates the first token eagerly: a Client   *)
(* exists only after build called the signing capability and stored the    *)
(* token signed at build time (the first the capability issued) in the     *)
(* cache.  If that first generation fails, as it always does with          *)
(* malformed key material, build returns the signing error Error::Key, no  *)
(* Client exists and no request can start.                                 *)
C11_EagerFirstToken ==
    /\ buildRes.res.tag = "Ok" =>
         /\ buildRes.signed
         /\ buildRes.token.token.sig = 1
         /\ buildRes.token.exp = Epoch + CacheSecs
         /\ buildRes.token.token.claims.iss = builder.iss
         /\ issued >= 1
    /\ (/\ buildRes # NoBuild
        /\ builder.kid # None /\ builder.iss # None
        /\ builder.ec_der = "malformed") =>
         /\ buildRes.res = ErrKey
         /\ cache = NoToken
         /\ issued = 0
    /\ buildRes.res.tag = "Key" =>
         /\ buildRes.signed
         /\ cache = NoToken
         /\ \A t \in Tasks : task[t].pc = "idle"

(* build failed in the first generation, on malformed key material. *)
C11_Witness ==
    /\ buildRes.res = ErrKey
    /\ builder.ec_der = "malformed"
    /\ buildRes.signed

---------------------------------------------------------------------------
(* The cache holds a token as gen_token makes them for this client:        *)
(* signed by the capability, with the client's iss and kid, and the three  *)
(* windows around one clock reading.                                       *)
CacheIsGenerated ==
    /\ cache.token.sig \in 1..issued
    /\ cache.token.kid = builder.kid
    /\ cache.token.claims.iss = builder.iss
    /\ cache.token.claims.aud = "appstoreconnect-v1"
    /\ cache.token.claims.iat = cache.exp - CacheSecs - BackdateSecs
    /\ cache.token.claims.exp = cache.exp - CacheSecs + ValiditySecs
    /\ cache.exp - CacheSecs \in ClockPoints
    /\ cache.exp - CacheSecs <= clock

(* The cache is left alone or replaced by the token the capability signs   *)
(* in this step, at the present clock reading.                             *)
CacheKeptOrReplaced ==
    \/ cache' = cache
    \/ /\ issued' = issued + 1
       /\ cache'.token.sig = issued'
       /\ cache'.exp = clock + CacheSecs
       /\ cache'.token.claims.iat = clock - BackdateSecs
       /\ cache'.token # EmptyString

(* C12: once build succeeded, the token cache always holds a token         *)
(* produced by gen_token; no request is handed the default (empty)         *)
(* ClientToken; and every step leaves the cache unchanged or replaces it   *)
(* by a newly generated token.                                             *)
C12_CacheAlwaysGenerated ==
    /\ [](ClientExists =>
            /\ cache # NoToken
            /\ cache.token # EmptyString
            /\ CacheIsGenerated
            /\ \A t \in Tasks :
                 task[t].pc \in {"send", "body"} =>
                   /\ task[t].tok # EmptyString
                   /\ task[t].tok.sig \in 1..issued
                   /\ task[t].auth.credentials # EmptyString)
    /\ [][CacheKeptOrReplaced]_vars

(* A request was handed a token that replaced the one build generated. *)
C12_Witness ==
    /\ ClientExists
    /\ cache.token.sig = 2
    /\ \E t \in Tasks : task[t].pc = "send" /\ task[t].tok = cache.token

---------------------------------------------------------------------------
(* The tasks between the expiry check of load_token and the return of the  *)
(* token (its replacement included).                                       *)
InSection == {t \in Tasks : task[t].pc \in {"gen", "ret"}}

(* C20: at most one task at a time is inside the expiry-check /            *)
(* regenerate / replace section of load_token, and it is the one that      *)
(* holds the token lock; the cached token changes only in a step of that   *)
(* task, so no task reads or writes the cached token while another task is *)
(* between its expiry check and its token replacement.                     *)
C20_SectionIsExclusive ==
    /\ [](/\ Cardinality(InSection) <= 1
          /\ \A t \in InSection : holder = t
          /\ holder # NoTask => InSection = {holder})
    /\ [][ClientExists /\ cache' # cache =>
            /\ InSection = {holder}
            /\ task[holder].pc = "gen"
            /\ \A u \in Tasks \ {holder} : task'[u] = task[u]]_vars

(* A task is about to regenerate the token while another waits for the     *)
(* lock.                                                                   *)
C20_Witness ==
    \E t, u \in Tasks :
       /\ t # u
       /\ task[t].pc = "gen" /\ holder = t
       /\ task[u].pc = "wait"

---------------------------------------------------------------------------
(* C15: once the transport delivered a response (a status and the body     *)
(* text), request_raw returns exactly that status and that text, for every *)
(* status, 2xx or not; when request_raw fails, the transport delivered no  *)
(* complete response and the failure is a signing error (Key), a body      *)
(* serialisation error (Convert) or a transport error (Reqwest).           *)
C15_RawReturnsStatusAndText ==
    /\ ret.wire.ok =>
         /\ ret.raw.res = NoResult
         /\ ret.raw.status = ret.wire.status
         /\ ret.raw.text = ret.wire.text
    /\ ret.caller # NoTask =>
         /\ ret.raw.res.tag \in {"none", "Key", "Convert", "Reqwest"}
         /\ ret.raw.res.tag # "none" =>
              /\ ~ret.wire.ok
              /\ ret.raw.res \in {ErrKey, ErrConvert, ErrReqwest}
              /\ ret.res = ret.raw.res

(* request_raw returned a status outside 2xx with its body. *)
C15_Witness ==
    /\ ret.caller # NoTask
    /\ ret.wire = Wire(500, NotJson)
    /\ ret.raw.res = NoResult
    /\ ret.raw.status = 500

---------------------------------------------------------------------------
(* The place of a call in its one pass: waiting for the token lock, inside *)
(* load_token, sending, reading the body.                                  *)
Stage(pc) ==
    CASE pc = "idle" -> 0
      [] pc = "wait" -> 1
      [] pc = "gen" -> 2
      [] pc = "ret" -> 3
      [] pc = "send" -> 4
      [] pc = "body" -> 5

(* C14: each call performs at most one token-cache load and at most one    *)
(* outbound send: a call only moves forward through its stages (it takes   *)
(* the token lock once, from the wait, and is at the send once) until it   *)
(* returns; and a step in which signing, the transport, the decoding or    *)
(* the server fails ends the call at once, with that error as the caller's *)
(* result.                                                                 *)
C14_OnePassNoRetry ==
    [][\A t \in Tasks :
         /\ task'[t].pc # task[t].pc =>
              \/ Stage(task'[t].pc) > Stage(task[t].pc)
              \/ /\ task'[t].pc = "idle"
                 /\ ret'.caller = t
         /\ (holder' = t /\ holder # t) => task[t].pc = "wait"
         /\ (task[t].pc = "gen" /\ issued' = issued /\ task'[t] # task[t]) =>
              /\ ret'.caller = t /\ ret'.res = ErrKey
              /\ task'[t].pc = "idle"
         /\ (task[t].pc \in {"send", "body"} /\ task'[t].pc = "idle") =>
              /\ ret'.caller = t
              /\ ret'.res.tag \in {"Ok", "Reqwest", "Convert", "ServerErrors"}
         /\ ret'.caller = t =>
              /\ task[t].pc \in {"gen", "send", "body"}
              /\ task'[t] = IdleTask
              /\ ret'.res.tag # "none"
              /\ ret'.raw.res.tag # "none" => ret'.res = ret'.raw.res
      ]_vars

(* A call returned the server's errors after its one send. *)
C14_Witness ==
    /\ ret.caller # NoTask
    /\ ret.res = ErrServerErrors(<<ServerError(E404)>>)
    /\ task[ret.caller].pc = "idle"

---------------------------------------------------------------------------
(* The step in which task t abandons its request: the call ends without    *)
(* returning to its caller.                                                *)
Abandons(t) ==
    \/ ret'.dropped = t
    \/ /\ task[t].pc # "idle"
       /\ task'[t].pc = "idle"
       /\ ret'.caller # t

(* C13: a caller abandons its request only at a suspension point (waiting  *)
(* for the token lock, during the send, during the body read); the         *)
(* abandonment does not leave the token lock held (the lock is held only   *)
(* by a task inside load_token, and the abandoning task does not hold it), *)
(* does not change the cached token or its expiry, and leaves the other    *)
(* requests as they were, with the waiters in their order; and every       *)
(* request in flight, whatever the others abandon, obtains its token and   *)
(* ends.                                                                   *)
C13_AbandonIsHarmless ==
    /\ [](/\ holder # NoTask => task[holder].pc \in {"gen", "ret"}
          /\ \A i \in 1..Len(waitq) : task[waitq[i]].pc = "wait"
          /\ \A t \in Tasks :
               task[t].pc = "wait" => \E i \in 1..Len(waitq) : waitq[i] = t)
    /\ [][\A t \in Tasks :
            Abandons(t) =>
              /\ task[t].pc \in {"wait", "send", "body"}
              /\ holder' = holder /\ holder' # t
              /\ cache' = cache /\ issued' = issued
              /\ \A u \in Tasks \ {t} : task'[u] = task[u]
              /\ waitq' = Without(waitq, t)
              /\ \A i \in 1..Len(waitq') : waitq'[i] # t
         ]_vars
    /\ \A t \in Tasks :
         /\ (task[t].pc = "wait") ~> (task[t].pc \in {"send", "idle"})
         /\ (task[t].pc # "idle") ~> (task[t].pc = "idle")

(* A request was abandoned in the last step while another waits for the   *)
(* token lock, at a time when the cached token has expired.                *)
C13_Witness ==
    \E t, u \in Tasks :
       /\ t # u
       /\ ret.dropped = t
       /\ task[t].pc = "idle"
       /\ task[u].pc = "wait"
       /\ holder = NoTask
       /\ clock > cache.exp

---------------------------------------------------------------------------
(* The fields the setters were called on, and the k-th of a set of fields  *)
(* in declared order.                                                      *)
CalledFields == {calls[k].field : k \in 1..Len(calls)}
Nth(S, k) == CHOOSE i \in S : Cardinality({j \in S : j < i}) = k - 1

(* C16: queries() returns exactly one pair per set field and none for an   *)
(* unset one, in the declared order of the fields whatever the order of    *)
(* the setter calls: the k-th pair has the key of the k-th set field in    *)
(* declared order.  The set fields are those a setter was called on; the   *)
(* default query gives the empty list; and the list is determined by the   *)
(* query object alone (its set fields and their values), so equal queries  *)
(* give identical lists.                                                   *)
C16_OnePairPerSetFieldInDeclaredOrder ==
    pairs.done =>
      LET q == pairs.of
          tab == QueryTable[q.type]
          S == {i \in 1..Len(q.fields) : q.fields[i].some}
      IN /\ S = CalledFields
         /\ Len(pairs.list) = Cardinality(S)
         /\ \A k \in 1..Len(pairs.list) :
              /\ pairs.list[k].key = tab[Nth(S, k)][2]
              /\ pairs.list[k].value =
                   format_params(tab[Nth(S, k)][3], q.fields[Nth(S, k)])
         /\ \A k, l \in 1..Len(pairs.list) :
              k # l => pairs.list[k].key # pairs.list[l].key
         /\ q = Default(q.type) => pairs.list = <<>>
         /\ calls = <<>> => pairs.list = <<>>

(* Two fields were set, the later declared one first, and queries() was    *)
(* called.                                                                 *)
C16_Witness ==
    /\ pairs.done
    /\ Len(calls) = 2
    /\ calls[1].field > calls[2].field
    /\ Len(pairs.list) = 2

---------------------------------------------------------------------------
(* The decimal numerals of the integers the model formats. *)
Numeral ==
    [n \in {0 - 2147483647, 0 - 120, 0 - 1, 0, 7, 10, 200, 2147483647} |->
       CASE n = 0 - 2147483647 -> "-2147483647"
         [] n = 0 - 120 -> "-120"
         [] n = 0 - 1 -> "-1"
         [] n = 0 -> "0"
         [] n = 7 -> "7"
         [] n = 10 -> "10"
         [] n = 200 -> "200"
         [] n = 2147483647 -> "2147483647"]

(* text is what a query pair carries for the value val of a field of type  *)
(* ty: the string itself, the decimal numeral, or the string the enum's    *)
(* serializer writes for the variant.                                      *)
Rendered(ty, val, text) ==
    IF ty = "String" THEN text = val.s
    ELSE IF ty = "i64" THEN text = Numeral[val.n]
    ELSE /\ text = serialize(ty, val.s)
         /\ \E i \in 1..Len(EnumTable[ty]) : EnumTable[ty][i] = <<val.s, text>>

(* C17: in queries(), and in format_params! on its own, a String is        *)
(* emitted verbatim, an i64 as its decimal numeral (zero and negative      *)
(* values included) and a variant of an enum as its wire string, the one   *)
(* the enum's serializer writes; for every field of every query type.      *)
C17_ValuesRendered ==
    /\ conv.op = "format_params" => Rendered(conv.ty, conv.val, conv.text)
    /\ pairs.done =>
         LET q == pairs.of
             tab == QueryTable[q.type]
             S == {i \in 1..Len(q.fields) : q.fields[i].some}
         IN /\ Len(pairs.list) = Cardinality(S)
            /\ \A k \in 1..Len(pairs.list) :
                 Rendered(tab[Nth(S, k)][3], q.fields[Nth(S, k)],
                          pairs.list[k].value)
    /\ \A qt \in DOMAIN QueryTable : \A i \in 1..Len(QueryTable[qt]) :
         QueryTable[qt][i][3] \in {"String", "i64"} \cup EnumNames

(* A query with an enum field and a negative i64 field set was turned into *)
(* pairs.                                                                  *)
C17_Witness ==
    /\ pairs.done
    /\ Len(pairs.list) = 2
    /\ pairs.of.type = "BundleIdQuery"
    /\ pairs.list[1].key = "filter[platform]"
    /\ pairs.list[1].value = "MAC_OS"
    /\ pairs.list[2].key = "limit"
    /\ pairs.list[2].value = "-120"

---------------------------------------------------------------------------
(* The places of the string s in the table of enum e. *)
ArmsOn(e, s) == {i \in 1..Len(EnumTable[e]) : EnumTable[e][i][2] = s}

(* C18: for every enum made by enum_str!, reading the wire string that the *)
(* serializer wrote for a variant gives that variant back (the wire string *)
(* stands at one place of the enum's table only, so the wire strings of an *)
(* enum are pairwise distinct); and reading a string that is not in the    *)
(* enum's table fails, while a string of the table gives the variant it    *)
(* stands with.                                                            *)
C18_EnumRoundTrip ==
    /\ conv.op \in {"serialize", "round trip"} =>
         /\ Cardinality(ArmsOn(conv.ty, conv.text)) = 1
         /\ \A i \in ArmsOn(conv.ty, conv.text) :
              EnumTable[conv.ty][i][1] = conv.val.s
    /\ conv.op = "round trip" =>
         /\ conv.out.ok
         /\ conv.out.variant = conv.val.s
    /\ conv.op = "deserialize" =>
         /\ conv.out.ok <=> ArmsOn(conv.ty, conv.text) # {}
         /\ conv.out.ok =>
              \E i \in ArmsOn(conv.ty, conv.text) :
                 EnumTable[conv.ty][i][1] = conv.out.variant
         /\ ~conv.out.ok => conv.out = Decoded_err

(* The wire string of another enum was refused. *)
C18_Witness ==
    /\ conv.op = "deserialize"
    /\ conv.ty = "ProfileState"
    /\ conv.text = "IOS"
    /\ ~conv.out.ok

---------------------------------------------------------------------------
(* C19: a *_by_url method issues one GET to exactly the URL it was given,  *)
(* which the caller took verbatim from links.next of the last page, with   *)
(* no query pairs, no body and no Content-Type; links.next is the URL of   *)
(* the response when it carries one and None when "next" is absent or      *)
(* null, and then no *_by_url request follows that page.                   *)
C19_ByUrlVerbatim ==
    /\ [](/\ sent.api \in ByUrlApis =>
               /\ sent.req.method = "GET"
               /\ sent.req.url = sent.arg
               /\ sent.arg \in NextUrls
               /\ sent.req.query = <<>>
               /\ sent.req.body = None
               /\ sent.req.content_type = None
          /\ page.wire.next \in NextUrls => page.links.next = page.wire.next
          /\ page.wire.next \notin NextUrls => page.links.next = None)
    /\ [][sent' # sent /\ sent'.api \in ByUrlApis =>
            /\ page.wire.next \in NextUrls
            /\ sent'.arg = page.wire.next
            /\ sent'.req.url = page.wire.next
            /\ page' = page]_vars

(* A page without "next" arrived after the caller had followed the next    *)
(* of the page before it.                                                  *)
C19_Witness ==
    /\ sent.api = "devices_by_url"
    /\ sent.req.url = "https://api.appstoreconnect.apple.com/v1/devices?cursor=Bg&limit=1"
    /\ page.wire.next = Absent
    /\ page.links.next = None

---------------------------------------------------------------------------
(* The tasks whose outbound HTTP call is in progress. *)
OnTheNetwork == {t \in Tasks : task[t].pc \in {"send", "body"}}

(* C21: no request holds the token lock while its outbound HTTP call (the  *)
(* send or the body read) is in progress: the lock holder is never on the  *)
(* network, and while some request is on the network the lock is free or   *)
(* held by another task inside load_token, so a further request can take   *)
(* its token and the network calls overlap.                                *)
C21_NoLockAcrossNetwork ==
    /\ holder \notin OnTheNetwork
    /\ \A t \in OnTheNetwork :
         /\ holder # t
         /\ holder # NoTask => task[holder].pc \in {"gen", "ret"}

(* The network calls of two requests overlap (one reads its body while the *)
(* other still sends) and the lock is free.                                *)
C21_Witness ==
    \E t, u \in Tasks :
       /\ t # u
       /\ task[t].pc = "send"
       /\ task[u].pc = "body"
       /\ holder = NoTask

---------------------------------------------------------------------------
(* C28: load_token regenerates exactly when the clock value it reads under *)
(* the lock is strictly greater than the cached expires_at: the task that  *)
(* takes the lock goes on to gen_token if clock > exp and to the return of *)
(* the cached token otherwise (clock = exp included), and the cache is     *)
(* replaced only for a task whose reading was greater than the cached exp. *)
C28_RegenerateIffStrictlyLater ==
    [][\A t \in Tasks :
         /\ (holder' = t /\ holder # t) =>
              /\ task'[t].now = clock
              /\ task'[t].pc = "gen" <=> clock > cache.exp
              /\ task'[t].pc = "ret" <=> clock <= cache.exp
              /\ cache' = cache
         /\ (ClientExists /\ holder = t /\ cache' # cache) =>
              /\ task[t].pc = "gen"
              /\ task[t].now > cache.exp
         /\ (holder = t /\ task[t].pc = "ret" /\ task'[t].pc = "send") =>
              /\ task'[t].tok = cache.token
              /\ cache' = cache
      ]_vars

(* A task read a clock equal to the cached expires_at under the lock and   *)
(* is about to return the cached token, the one build generated.           *)
C28_Witness ==
    \E t \in Tasks :
       /\ holder = t
       /\ task[t].pc = "ret"
       /\ task[t].now = cache.exp
       /\ clock = cache.exp
       /\ cache.token.sig = 1

---------------------------------------------------------------------------
(* C24: the cached token string and its expires_at are always replaced     *)
(* together.  In every state the cached exp is the one of the generation   *)
(* that signed the cached string (the string carries iat = now - 300 and   *)
(* exp = now + 900 of its generation, the cached exp is now + 600 of the   *)
(* same now), so a task inside load_token never sees the string of one     *)
(* generation with the expiry of another; and a step changes the string    *)
(* if and only if it changes the expiry.                                   *)
C24_PairReplacedTogether ==
    /\ [](ClientExists =>
            /\ cache.exp = cache.token.claims.iat + 300 + 600
            /\ cache.token.claims.exp = cache.exp - 600 + 900
            /\ cache.token.sig >= 1)
    /\ [][/\ cache'.token = cache.token <=> cache'.exp = cache.exp
          /\ cache' # cache => cache'.exp = clock + 600
                                /\ cache'.token.claims.iat = clock - 300]_vars

(* A task inside load_token is about to return the string of the second    *)
(* generation, cached with the expiry of that generation.                  *)
C24_Witness ==
    \E t \in Tasks :
       /\ holder = t
       /\ task[t].pc = "ret"
       /\ cache.token.sig = 2
       /\ cache.exp = clock + 600
       /\ cache.token.claims.iat = clock - 300

---------------------------------------------------------------------------
(* C25: once a request has its token, its steps (the send, the body read,  *)
(* the decoding and the return, with whatever outcome: a payload, a        *)
(* transport error, a decode error, the server's errors) leave the cached  *)
(* token and its expiry, the lock and its queue unchanged, and leave every *)
(* other request, in flight or not, exactly as it was; the result goes to  *)
(* the caller of that request alone.                                       *)
C25_RequestsShareOnlyTheCache ==
    [][\A t \in Tasks :
         (task[t].pc \in {"send", "body"} /\ task'[t] # task[t]) =>
           /\ cache' = cache
           /\ issued' = issued
           /\ holder' = holder
           /\ waitq' = waitq
           /\ \A u \in Tasks \ {t} : task'[u] = task[u]
           /\ ret'.caller \in {NoTask, t}
           /\ ret'.caller = t =>
                ret'.res.tag \in {"Ok", "Reqwest", "Convert", "ServerErrors"}
      ]_vars

(* A request returned a decode error while another one, holding the same   *)
(* token, reads its body.                                                  *)
C25_Witness ==
    \E t, u \in Tasks :
       /\ t # u
       /\ ret.caller = t
       /\ ret.res = ErrConvert
       /\ task[u].pc = "body"
       /\ task[u].tok = cache.token

---------------------------------------------------------------------------
(* C26: when gen_token fails inside load_token, the call returns the       *)
(* signing error Error::Key, the cached token and its expiry are left as   *)
(* they were (the token is still the expired one), the lock is released;   *)
(* and a load_token call that takes the lock next goes to gen_token again  *)
(* and does not return the stale token.  A task leaves gen_token towards   *)
(* the return of a token only with a newly signed one in the cache.        *)
C26_SigningFailureKeepsCache ==
    [][\A t \in Tasks :
         /\ (task[t].pc = "gen" /\ ret'.caller = t) =>
              /\ ret'.raw = RawErr(ErrKey)
              /\ ret'.res = ErrKey
              /\ cache' = cache
              /\ issued' = issued
              /\ clock > cache'.exp
              /\ holder = t /\ holder' = NoTask
              /\ task'[t].pc = "idle"
         /\ (task[t].pc = "gen" /\ task'[t].pc = "ret") =>
              /\ issued' = issued + 1
              /\ cache'.token.sig = issued'
              /\ cache'.exp = clock + 600
         /\ (ret.raw.res = ErrKey /\ ret.caller # NoTask
               /\ holder' = t /\ holder # t) =>
              /\ clock > cache.exp
              /\ task'[t].pc = "gen"
      ]_vars

(* A load_token call just failed in gen_token: the expired token is still  *)
(* cached, the lock is free and another caller waits for it.               *)
C26_Witness ==
    \E t, u \in Tasks :
       /\ t # u
       /\ ret.caller = t
       /\ ret.res = ErrKey
       /\ holder = NoTask
       /\ clock > cache.exp
       /\ cache.token.sig = 1
       /\ task[u].pc = "wait"

---------------------------------------------------------------------------
(* C27: in every request the token is obtained from the cache before the   *)
(* network call is started: a request on the network carries a token the   *)
(* capability signed, in its Authorization header, and a request that has  *)
(* not left load_token has sent nothing and has no response.  If obtaining *)
(* the token fails, the call ends there: the transport delivered nothing   *)
(* for it and the caller receives the signing error.                       *)
C27_TokenBeforeNetwork ==
    /\ \A t \in Tasks :
         /\ task[t].pc \in {"send", "body"} =>
              /\ task[t].tok # EmptyString
              /\ task[t].tok.sig \in 1..issued
              /\ task[t].auth.credentials = task[t].tok
         /\ task[t].pc \in {"wait", "gen", "ret"} =>
              /\ task[t].tok = EmptyString
              /\ task[t].auth = NoHeader
              /\ task[t].status = 0
    /\ (ret.caller # NoTask /\ ret.raw.res.tag = "Key") =>
         /\ ~ret.wire.ok
         /\ ret.wire = NoWire
         /\ ret.raw = RawErr(ErrKey)
         /\ ret.res = ErrKey
         /\ task[ret.caller] = IdleTask

(* A request ended with the signing error, without a network call, while   *)
(* the request of another caller is on the network with its token.         *)
C27_Witness ==
    \E t, u \in Tasks :
       /\ t # u
       /\ ret.caller = t
       /\ ret.raw = RawErr(ErrKey)
       /\ ret.wire = NoWire
       /\ task[u].pc = "send"
       /\ task[u].tok.sig = 1

---------------------------------------------------------------------------
(* C29: with a clock that never runs backwards, every regeneration         *)
(* strictly increases the cached expires_at, and the clock readings of two *)
(* successive successful generations (the reading is iat + 300 of the      *)
(* token signed) are more than 600 seconds apart: at most one regeneration *)
(* per expiry window, however the load_token calls interleave.             *)
C29_RegenerationsFarApart ==
    [][/\ clock' >= clock
       /\ (ClientExists /\ cache' # cache) =>
            /\ cache'.exp > cache.exp
            /\ cache'.token.claims.iat - cache.token.claims.iat > 600
            /\ cache'.token.sig = cache.token.sig + 1
      ]_vars

(* The token was regenerated twice after build. *)
C29_Witness ==
    /\ ClientExists
    /\ cache.token.sig = 3
    /\ cache.exp = clock + 600

---------------------------------------------------------------------------
(* The parameter names of the App Store Connect API that the query types   *)
(* address.                                                                *)
ParameterNames ==
    {"fields[bundleIds]", "fields[profiles]", "filter[id]",
     "filter[identifier]", "filter[name]", "filter[platform]",
     "filter[seedId]", "include", "limit", "limit[profiles]", "sort",
     "fields[bundleIdCapabilities]", "limit[bundleIdCapabilities]",
     "fields[apps]", "fields[certificates]", "filter[serialNumber]",
     "filter[certificateType]", "filter[displayName]", "fields[devices]",
     "filter[profiles]", "limit[certificates]", "limit[devices]",
     "filter[profileState]", "filter[profileType]", "filter[status]",
     "filter[udid]", "fields[users]", "filter[roles]",
     "filter[visibleApps]", "filter[username]", "limit[visibleApps]"}

(* C30: every key that queries() emits is exactly the API parameter name   *)
(* of its field, with no blank before or after it; and a ProfileQuery with *)
(* filter_profile_state set emits its value under the key                  *)
(* "filter[profileState]".                                                 *)
C30_KeysAreParameterNames ==
    pairs.done =>
      /\ \A k \in 1..Len(pairs.list) :
           /\ pairs.list[k].key \in ParameterNames
           /\ \A x \in ParameterNames :
                /\ pairs.list[k].key # " " \o x
                /\ pairs.list[k].key # x \o " "
      /\ (/\ pairs.of.type = "ProfileQuery"
          /\ \E i \in 1..Len(pairs.of.fields) :
               /\ QueryTable["ProfileQuery"][i][1] = "filter_profile_state"
               /\ pairs.of.fields[i].some) =>
           \E k \in 1..Len(pairs.list) :
              /\ pairs.list[k].key = "filter[profileState]"
              /\ pairs.list[k].value \in {"ACTIVE", "INVALID"}

---------------------------------------------------------------------------
(* C22: under fair scheduling every call of load_token acquires the lock   *)
(* and then returns, with the token (the request goes on to be sent) or    *)
(* with the signing error.  A caller that arrives while another is         *)
(* regenerating waits, it does not enter the section or sign on its own,   *)
(* and then gets the lock; the lock is never free with a waiter that       *)
(* cannot take it, and no caller waits forever.                            *)
C22_EveryCallerGetsTheLock ==
    /\ [](/\ (holder = NoTask /\ waitq # <<>>) =>
               task[Head(waitq)].pc = "wait"
          /\ \A t \in Tasks :
               task[t].pc \in {"gen", "ret"} => holder = t)
    /\ [][\A t \in Tasks :
            (task[t].pc = "wait" /\ holder \notin {NoTask, t}) =>
              (task'[t].pc = "wait" /\ holder' # t)
         ]_vars
    /\ \A t \in Tasks :
         /\ (task[t].pc = "wait") ~> (holder = t)
         /\ (holder = t) ~>
              (/\ holder # t
               /\ \/ task[t].pc = "send"
                  \/ ret.caller = t /\ ret.raw = RawErr(ErrKey))
         /\ (/\ task[t].pc = "wait"
             /\ holder \notin {NoTask, t}
             /\ task[holder].pc = "gen") ~> (holder = t)

(* A caller waits for the lock while the other is regenerating the token.  *)
C22_Witness ==
    \E t, u \in Tasks :
       /\ task[t].pc = "wait"
       /\ holder = u /\ u # t
       /\ task[u].pc = "gen"
       /\ issued > 0

---------------------------------------------------------------------------
(* C23: for every clock reading now >= 0, gen_token returns (it does not   *)
(* panic), and when the signing succeeds the claims have the issuer of the *)
(* identity, the audience "appstoreconnect-v1", iat = now - 300 and        *)
(* exp = now + 900, the cached exp is now + 600, and                       *)
(* iat < now < cached exp < signed exp: nothing underflows or overflows.   *)
C23_WindowsForEveryReading ==
    ret.kind = "gen_token" =>
      /\ ret.res.tag # "panic"
      /\ ret.res.tag = "Ok" =>
           /\ cache.token.claims.iss = builder.iss
           /\ cache.token.claims.aud = "appstoreconnect-v1"
           /\ cache.token.claims.iat = clock - 300
           /\ cache.token.claims.exp = clock + 900
           /\ cache.exp = clock + 600
           /\ cache.token.claims.iat < clock
           /\ clock < cache.exp
           /\ cache.exp < cache.token.claims.exp

=============================================================================
